---- MODULE Spec2Model ----
(***************************************************************************)
(* Model of the local documentation index of appledeepdoc-mcp:             *)
(* Config (config.py) locates the documentation folders,                   *)
(* LocalDocsManager (docs/local_docs.py) loads them into two dictionaries  *)
(* and answers search / get_document / list_documents queries.             *)
(*                                                                         *)
(* SwiftRepos (repos/swift_repos.py) and AppleDocsAPI (docs/apple_docs.py)  *)
(* fetch from the network and keep what they fetched in dictionaries of    *)
(* their own; they share no state with the index and have a specification  *)
(* of their own, FetchSpec.                                                *)
(*                                                                         *)
(* Strings are sequences of one-character strings, so that concatenation,  *)
(* splitting, slicing and case folding are computed as the code computes   *)
(* them.  Python dictionaries keep insertion order: they are sequences of  *)
(* entries with distinct keys.                                             *)
(***************************************************************************)
EXTENDS Integers, Sequences, FiniteSets, TLC

VARIABLES
    disk,           \* /Applications: the installations and their .md files
    env,            \* os.environ.get("XCODE_DOC_PATH")
    edit,           \* "frozen", "pending" or "done": edits of the disk
                    \* while the server runs
    doc_paths,      \* LocalDocsManager.doc_paths (indices into disk)
    docs_cache,     \* LocalDocsManager.docs_cache (ordered dictionary)
    content_cache,  \* LocalDocsManager.content_cache (ordered dictionary)
    pc,             \* "start", "load", "ready" or "answered"
    ri,             \* position of initialize() in doc_paths
    fi,             \* position of initialize() in the files of that folder
    resp,           \* the value returned by the last call
    config_error,   \* whether the last initialize() caught the ValueError
    first_build,    \* what the first initialize() left behind (history)
    mode,           \* which part of the server the behaviour exercises:
                    \* "docs", "urls", "github" or "apple"
    hour,           \* int(time.time() // 3600), counted from the start
    serial,         \* the number of different URLs stored so far
    apple_docs_cache,   \* AppleDocsAPI.cache (ordered dictionary)
    swift_repos_cache,  \* SwiftRepos.cache (ordered dictionary)
    fetched         \* the last call of a fetch function: its arguments,
                    \* the request it issued and the value it returned

\* the variables of the documentation index, and those of the fetch modules
docs_vars ==
    <<disk, env, edit, doc_paths, docs_cache, content_cache, pc, ri, fi, resp,
      config_error, first_build>>
fetch_vars == <<mode, hour, serial, apple_docs_cache, swift_repos_cache, fetched>>

vars ==
    <<disk, env, edit, doc_paths, docs_cache, content_cache, pc, ri, fi, resp,
      config_error, first_build,
      mode, hour, serial, apple_docs_cache, swift_repos_cache, fetched>>

(***************************************************************************)
(* Bounds of the model.                                                    *)
(***************************************************************************)
\* largest number of .md files on the disk of a small corpus
MaxFiles == 2
\* number of .md files of the large single-installation corpus
BigFiles == 21
\* largest number of .md files of a corpus that is edited
MaxEditedFiles == 1

(***************************************************************************)
(* Program constants.                                                      *)
(***************************************************************************)
\* local_docs.py:134  if len(matches) >= 5: break
MaxMatches == 5
\* local_docs.py:138-139  match.start() - 50, match.end() + 50
ContextChars == 50
\* local_docs.py:171  results[:20]
MaxResults == 20
\* local_docs.py:79  content[:500]
TopicPreviewChars == 500
\* local_docs.py:91  headers[:5]
MaxTopics == 5

(***************************************************************************)
(* Strings.                                                                *)
(***************************************************************************)
Min(a, b) == IF a < b THEN a ELSE b
Max(a, b) == IF a > b THEN a ELSE b

\* s[i:j] of Python for 0 <= i, j (0-based, j exclusive, clipped to the string)
Slice(s, i, j) == SubSeq(s, i + 1, Min(j, Len(s)))

\* the string made of n copies of the character c
Rep(c, n) == [i \in 1..n |-> c]

\* str.lower() on one character (the letters the model uses)
LowerChar(c) ==
    CASE c = "A" -> "a"
      [] c = "B" -> "b"
      [] c = "C" -> "c"
      [] c = "X" -> "x"
      [] OTHER -> c

\* str.lower()
Lower(s) == [i \in 1..Len(s) |-> LowerChar(s[i])]

\* str.isspace() on one character, which is also what \s matches
IsSpace(c) == c \in {" ", "\n", "\t"}

\* the order of Python on characters: by code point
Ord(c) ==
    CASE c = "\t" -> 9
      [] c = "\n" -> 10
      [] c = " " -> 32
      [] c = "#" -> 35
      [] c = "-" -> 45
      [] c = "." -> 46
      [] c = ":" -> 58
      [] c = "A" -> 65
      [] c = "B" -> 66
      [] c = "C" -> 67
      [] c = "X" -> 88
      [] c = "a" -> 97
      [] c = "b" -> 98
      [] c = "c" -> 99
      [] c = "d" -> 100
      [] c = "e" -> 101
      [] c = "o" -> 111
      [] c = "p" -> 112
      [] OTHER -> 128

\* s < t in the order of Python on str (lexicographic by code point)
RECURSIVE StrLess(_, _)
StrLess(s, t) ==
    IF t = <<>> THEN FALSE
    ELSE IF s = <<>> THEN TRUE
    ELSE IF Ord(s[1]) # Ord(t[1]) THEN Ord(s[1]) < Ord(t[1])
    ELSE StrLess(Tail(s), Tail(t))

\* does the string p sit in s at 0-based offset i, exactly or ignoring case
MatchAt(p, s, i, case_sensitive) ==
    /\ i + Len(p) <= Len(s)
    /\ \A k \in 1..Len(p) :
          IF case_sensitive THEN s[i + k] = p[k]
          ELSE LowerChar(s[i + k]) = LowerChar(p[k])

\* offset of the first occurrence of p in s at or after offset from, -1 if none
FindFrom(p, s, from, case_sensitive) ==
    LET last == Len(s) - Len(p) IN
    IF \E i \in from..last : MatchAt(p, s, i, case_sensitive)
    THEN CHOOSE i \in from..last :
            /\ MatchAt(p, s, i, case_sensitive)
            /\ \A j \in from..(i - 1) : ~MatchAt(p, s, j, case_sensitive)
    ELSE -1

\* "p in s" of Python
Contains(s, p) == FindFrom(p, s, 0, TRUE) # -1

(***************************************************************************)
(* Python dictionaries: sequences of entries with distinct keys.           *)
(***************************************************************************)
Keys(d) == {d[i].key : i \in 1..Len(d)}

\* d[key] for a key of d
Lookup(d, key) == d[CHOOSE i \in 1..Len(d) : d[i].key = key]

\* d[key] = entry: an existing key keeps its place, a new key goes last
DictSet(d, entry) ==
    IF entry.key \in Keys(d)
    THEN [i \in 1..Len(d) |-> IF d[i].key = entry.key THEN entry ELSE d[i]]
    ELSE Append(d, entry)

(***************************************************************************)
(* config.py                                                               *)
(***************************************************************************)
Xcode == <<"X", "c", "o", "d", "e">>
DotApp == <<".", "a", "p", "p">>
Separator == <<":", ":">>

\* Config.XCODE_PATTERNS = ["Xcode*.app", "Xcode.app"]; a pattern is the text
\* before its star and the text after it (no star: the whole name)
XCODE_PATTERNS ==
    << [star |-> TRUE, pre |-> Xcode, suf |-> DotApp],
       [star |-> FALSE, pre |-> Xcode \o DotApp, suf |-> <<>>] >>

\* does a directory name match a pattern of Path.glob
GlobMatch(pattern, name) ==
    IF pattern.star
    THEN /\ Len(name) >= Len(pattern.pre) + Len(pattern.suf)
         /\ SubSeq(name, 1, Len(pattern.pre)) = pattern.pre
         /\ SubSeq(name, Len(name) - Len(pattern.suf) + 1, Len(name)) = pattern.suf
    ELSE name = pattern.pre

\* doc_path.exists() and doc_path.is_dir() and list(doc_path.glob("*.md"))
HasDocumentation(d, a) == Len(d[a].files) > 0

\* the inner loop of find_xcode_documentation_paths for one pattern: the
\* installations from position a on that match and hold documentation
RECURSIVE GlobPattern(_, _, _)
GlobPattern(d, pattern, a) ==
    IF a > Len(d) THEN <<>>
    ELSE (IF GlobMatch(pattern, d[a].name) /\ HasDocumentation(d, a)
          THEN <<a>> ELSE <<>>) \o GlobPattern(d, pattern, a + 1)

\* Config.find_xcode_documentation_paths: one pass per pattern, appended
find_xcode_documentation_paths(d) ==
    GlobPattern(d, XCODE_PATTERNS[1], 1) \o GlobPattern(d, XCODE_PATTERNS[2], 1)

\* Config.get_xcode_name_from_path: the name of the nearest parent whose
\* suffix is .app; below /Applications that is the installation's directory
get_xcode_name_from_path(d, path) == d[path].name

\* an Optional[str] value
None == [some |-> FALSE, val |-> <<>>]
Some(str) == [some |-> TRUE, val |-> str]

\* A path is the number of an installation (its AdditionalDocumentation
\* folder), NoSuchPath for a path that is not on the disk, or EmptyPath for
\* the empty string.
NoSuchPath == 0
EmptyPath == -1

\* if custom_path: (an unset variable and an empty one are both false)
IsSet(custom_path) == custom_path.some /\ custom_path.val # EmptyPath

\* custom_path.exists()
PathExists(d, path) == path \in 1..Len(d)

\* what a call leaves: the paths it returns, or the ValueError it raises
Returned(paths) == [raised |-> FALSE, paths |-> paths]
ValueError == [raised |-> TRUE]

\* get_documentation_paths that returns no path when discovery finds none
get_documentation_paths_or_nothing(d, custom_path) ==
    IF IsSet(custom_path)
    THEN IF ~PathExists(d, custom_path.val) THEN ValueError
         ELSE Returned(<<custom_path.val>>)
    ELSE Returned(find_xcode_documentation_paths(d))

\* get_documentation_paths that adds the discovered folders to the override
\* and leaves an override that does not exist out
get_documentation_paths_and_discovery(d, custom_path) ==
    LET paths == find_xcode_documentation_paths(d) IN
    IF IsSet(custom_path)
    THEN Returned((IF PathExists(d, custom_path.val) THEN <<custom_path.val>> ELSE <<>>)
                  \o paths)
    ELSE IF paths = <<>> THEN ValueError ELSE Returned(paths)

\* Config.get_documentation_paths
get_documentation_paths(d, custom_path) ==
    IF IsSet(custom_path)
    THEN IF ~PathExists(d, custom_path.val) THEN ValueError
         ELSE Returned(<<custom_path.val>>)
    ELSE LET paths == find_xcode_documentation_paths(d) IN
         IF paths = <<>> THEN ValueError ELSE Returned(paths)

(***************************************************************************)
(* LocalDocsManager.initialize                                             *)
(***************************************************************************)
\* offset of the first newline of t at or after offset g, Len(t) if none
EndOfLine(t, g) ==
    IF \E e \in g..(Len(t) - 1) : t[e + 1] = "\n"
    THEN CHOOSE e \in g..(Len(t) - 1) :
            t[e + 1] = "\n" /\ \A d \in g..(e - 1) : t[d + 1] # "\n"
    ELSE Len(t)

\* the number of "#" of t from offset p on, counted up to four
HashRun(t, p) ==
    IF \E h \in 0..3 : p + h >= Len(t) \/ t[p + h + 1] # "#"
    THEN CHOOSE h \in 0..3 :
            /\ p + h >= Len(t) \/ t[p + h + 1] # "#"
            /\ \A g \in 0..(h - 1) : t[p + g + 1] = "#"
    ELSE 4

\* offset behind the whitespace of t that starts at offset w
EndOfSpace(t, w) ==
    IF \E e \in w..(Len(t) - 1) : ~IsSpace(t[e + 1])
    THEN CHOOSE e \in w..(Len(t) - 1) :
            ~IsSpace(t[e + 1]) /\ \A d \in w..(e - 1) : IsSpace(t[d + 1])
    ELSE Len(t)

\* where the group (.+) of ^#{1,3}\s+(.+)$ starts when the pattern is tried
\* at offset p of t, -1 when it does not match there: p starts a line, one
\* to three "#" are followed by whitespace, and the group starts behind the
\* whitespace; when the whitespace runs to the end of t, \s+ gives back
\* characters until the group can start on one that is not a newline
GroupStart(t, p) ==
    LET h == HashRun(t, p)
        w == p + h
        e == EndOfSpace(t, w)
        given == {g \in (w + 1)..(Len(t) - 1) : t[g + 1] # "\n"}
    IN IF ~(p = 0 \/ t[p] = "\n") \/ h < 1 \/ h > 3 \/ e = w THEN -1
       ELSE IF e < Len(t) THEN e
       ELSE IF given = {} THEN -1
       ELSE CHOOSE g \in given : \A g2 \in given : g2 <= g

\* re.findall(r'^#{1,3}\s+(.+)$', t, re.MULTILINE) from offset from on: the
\* groups of the matches, left to right, each search starting where the
\* last match ended
RECURSIVE FindHeaders(_, _)
FindHeaders(t, from) ==
    LET starts == {p \in from..(Len(t) - 1) : GroupStart(t, p) # -1} IN
    IF starts = {} THEN <<>>
    ELSE LET p == CHOOSE q \in starts : \A q2 \in starts : q <= q2
             g == GroupStart(t, p)
             end == EndOfLine(t, g)
         IN <<Slice(t, g, end)>> \o FindHeaders(t, end)

\* headers[:5] for headers = re.findall(..., content[:500], re.MULTILINE)
Topics(content) ==
    Slice(FindHeaders(Slice(content, 0, TopicPreviewChars), 0), 0, MaxTopics)

\* key = f"{xcode_name}::{md_file.stem}"
CompositeKey(xcode_name, stem) == xcode_name \o Separator \o stem

\* the counts of the summary line: f"Indexed {len(self.docs_cache)} documents
\* from {len(self.doc_paths)} Xcode installation(s)"
SummaryLine(dc, paths) == [documents |-> Len(dc), installations |-> Len(paths)]

\* IndexFile with the metadata stored before the file is read, so that a
\* file that cannot be read leaves its metadata entry behind
IndexFileMetadataFirst(caches, xcode_name, path, file) ==
    LET key == CompositeKey(xcode_name, file.stem)
        docs == DictSet(caches.docs,
                        [key |-> key,
                         path |-> <<path, file.stem>>,
                         name |-> file.stem,
                         size |-> Len(file.text),
                         xcode_source |-> xcode_name,
                         topics |-> Topics(file.text)])
    IN [docs |-> docs,
        content |-> IF file.readable
                    THEN DictSet(caches.content, [key |-> key, content |-> file.text])
                    ELSE caches.content]

\* IndexFile that adds the text of a file to the text its key already has
IndexFileAppending(caches, xcode_name, path, file) ==
    IF ~file.readable THEN caches
    ELSE LET key == CompositeKey(xcode_name, file.stem)
             old == IF key \in Keys(caches.content)
                    THEN Lookup(caches.content, key).content ELSE <<>>
         IN [docs |-> DictSet(caches.docs,
                              [key |-> key,
                               path |-> <<path, file.stem>>,
                               name |-> file.stem,
                               size |-> Len(file.text),
                               xcode_source |-> xcode_name,
                               topics |-> Topics(file.text)]),
             content |-> DictSet(caches.content,
                                 [key |-> key, content |-> old \o file.text])]

\* the body of the loop over md_file: read_text raises for a file that
\* cannot be read or decoded and the except clause skips the file; otherwise
\* the metadata entry is stored, then the content
IndexFile(caches, xcode_name, path, file) ==
    IF ~file.readable THEN caches
    ELSE LET key == CompositeKey(xcode_name, file.stem) IN
         [docs |-> DictSet(caches.docs,
                           [key |-> key,
                            path |-> <<path, file.stem>>,
                            name |-> file.stem,
                            size |-> Len(file.text),
                            xcode_source |-> xcode_name,
                            topics |-> Topics(file.text)]),
          content |-> DictSet(caches.content,
                              [key |-> key, content |-> file.text])]

\* the first folder from position r on that holds a .md file (the loop over
\* md_file has no iteration for a folder without one), else Len(paths) + 1
FirstFolder(d, paths, r) ==
    IF \E q \in r..Len(paths) : Len(d[paths[q]].files) > 0
    THEN CHOOSE q \in r..Len(paths) :
            /\ Len(d[paths[q]].files) > 0
            /\ \A o \in r..(q - 1) : Len(d[paths[o]].files) = 0
    ELSE Len(paths) + 1

\* NextPosition of a loop that a file that cannot be read ends: the files
\* behind it, in its folder and in the later ones, are not loaded
NextPositionUntilError(d, paths, r, f) ==
    IF ~d[paths[r]].files[f].readable THEN <<Len(paths) + 1, 1>>
    ELSE IF f < Len(d[paths[r]].files) THEN <<r, f + 1>>
    ELSE <<FirstFolder(d, paths, r + 1), 1>>

\* the position of the loops after the file at <<r, f>>: the next file of
\* the folder, else the first file of the next folder that has one
NextPosition(d, paths, r, f) ==
    IF f < Len(d[paths[r]].files) THEN <<r, f + 1>>
    ELSE <<FirstFolder(d, paths, r + 1), 1>>

(***************************************************************************)
(* LocalDocsManager.search                                                 *)
(***************************************************************************)
\* composite_key.split("::", 1)[1] if "::" in composite_key else composite_key
SplitName(composite_key) ==
    LET i == FindFrom(Separator, composite_key, 0, TRUE) IN
    IF i = -1 THEN composite_key
    ELSE Slice(composite_key, i + Len(Separator), Len(composite_key))

\* pattern.search(text) for pattern = re.compile(re.escape(query), flags)
PatternSearch(query, text, case_sensitive) ==
    FindFrom(query, text, 0, case_sensitive) # -1

\* str.strip(): leading and trailing whitespace removed
Strip(s) ==
    IF \A i \in 1..Len(s) : IsSpace(s[i]) THEN <<>>
    ELSE SubSeq(s,
                CHOOSE i \in 1..Len(s) :
                   ~IsSpace(s[i]) /\ \A j \in 1..(i - 1) : IsSpace(s[j]),
                CHOOSE i \in 1..Len(s) :
                   ~IsSpace(s[i]) /\ \A j \in (i + 1)..Len(s) : IsSpace(s[j]))

\* re.sub(r'\s+', ' ', s): every run of whitespace becomes one space; the
\* characters kept are the non-blank ones and the first of every run
FirstOfRun(x) == ~IsSpace(x[1]) \/ ~x[2]
CollapseSpaces(s) ==
    LET marked == [i \in 1..Len(s) |-> <<s[i], i > 1 /\ IsSpace(s[i - 1])>>]
        kept == SelectSeq(marked, FirstOfRun)
    IN [k \in 1..Len(kept) |-> IF IsSpace(kept[k][1]) THEN " " ELSE kept[k][1]]

\* ContentMatch without the normalisation of whitespace runs
ContentMatchStripOnly(content, mstart, mend) ==
    LET start == Max(0, mstart - ContextChars)
        end == Min(Len(content), mend + ContextChars)
    IN [type |-> "content",
        context |-> Strip(Slice(content, start, end)),
        position |-> mstart]

\* the match dictionary built for the occurrence at offsets [mstart, mend)
ContentMatch(content, mstart, mend) ==
    LET start == Max(0, mstart - ContextChars)
        end == Min(Len(content), mend + ContextChars)
    IN [type |-> "content",
        context |-> CollapseSpaces(Strip(Slice(content, start, end))),
        position |-> mstart]

\* ContentLoop that leaves the loop one match too late (> for >=)
RECURSIVE ContentLoopLateBreak(_, _, _, _, _)
ContentLoopLateBreak(query, content, case_sensitive, from, matches) ==
    LET mstart == FindFrom(query, content, from, case_sensitive) IN
    IF mstart = -1 \/ Len(matches) > MaxMatches THEN matches
    ELSE ContentLoopLateBreak(query, content, case_sensitive,
                     IF query = <<>> THEN mstart + 1 ELSE mstart + Len(query),
                     Append(matches,
                            ContentMatch(content, mstart, mstart + Len(query))))

\* the loop over pattern.finditer(content): occurrences are found left to
\* right from offset from, the next search starts where the last occurrence
\* ended (one further for an empty one), and the loop is left once matches
\* holds MaxMatches entries
RECURSIVE ContentLoop(_, _, _, _, _)
ContentLoop(query, content, case_sensitive, from, matches) ==
    LET mstart == FindFrom(query, content, from, case_sensitive) IN
    IF mstart = -1 \/ Len(matches) >= MaxMatches THEN matches
    ELSE ContentLoop(query, content, case_sensitive,
                     IF query = <<>> THEN mstart + 1 ELSE mstart + Len(query),
                     Append(matches,
                            ContentMatch(content, mstart, mstart + Len(query))))

\* self.content_cache.get(composite_key, "")
ContentGet(cc, composite_key) ==
    IF composite_key \in Keys(cc) THEN Lookup(cc, composite_key).content ELSE <<>>

\* the matches list of one index entry
DocMatches(query, case_sensitive, composite_key, content) ==
    LET doc_name == SplitName(composite_key)
        first == IF PatternSearch(query, doc_name, case_sensitive)
                 THEN <<[type |-> "filename", context |-> doc_name]>>
                 ELSE <<>>
    IN IF content # <<>>
       THEN ContentLoop(query, content, case_sensitive, 0, first)
       ELSE first

\* the body of the loop over docs_cache.items(): the results list with the
\* entry at position i appended when it has a match
RECURSIVE SearchLoop(_, _, _, _, _, _)
SearchLoop(dc, cc, query, case_sensitive, i, results) ==
    IF i > Len(dc) THEN results
    ELSE LET matches == DocMatches(query, case_sensitive, dc[i].key,
                                   ContentGet(cc, dc[i].key))
         IN SearchLoop(dc, cc, query, case_sensitive, i + 1,
                IF matches # <<>>
                THEN Append(results,
                            [document |-> SplitName(dc[i].key),
                             xcode_version |-> dc[i].xcode_source,
                             matches |-> matches,
                             total_matches |-> Len(matches)])
                ELSE results)

\* any(m["type"] == "filename" for m in x["matches"])
HasFilenameMatch(x) == \E k \in 1..Len(x.matches) : x.matches[k].type = "filename"

\* SortKeyLeq with the filename component of the key dropped
SortKeyLeqTotalsOnly(x, y) == (0 - x.total_matches) <= (0 - y.total_matches)

\* the sort key (not any filename match, -total_matches): is key(x) <= key(y)
SortKeyLeq(x, y) ==
    LET nx == ~HasFilenameMatch(x)
        ny == ~HasFilenameMatch(y)
    IN IF nx # ny THEN ny
       ELSE (0 - x.total_matches) <= (0 - y.total_matches)

\* InsertByKey of a sort that is not stable: x goes in front of its ties
RECURSIVE InsertByKeyBeforeTies(_, _)
InsertByKeyBeforeTies(sorted, x) ==
    IF sorted = <<>> THEN <<x>>
    ELSE IF SortKeyLeq(sorted[1], x) /\ ~SortKeyLeq(x, sorted[1])
    THEN <<sorted[1]>> \o InsertByKeyBeforeTies(Tail(sorted), x)
    ELSE <<x>> \o sorted

\* list.sort is stable: x goes behind every element whose key is <= its own
RECURSIVE InsertByKey(_, _)
InsertByKey(sorted, x) ==
    IF sorted = <<>> THEN <<x>>
    ELSE IF SortKeyLeq(sorted[1], x) THEN <<sorted[1]>> \o InsertByKey(Tail(sorted), x)
    ELSE <<x>> \o sorted

RECURSIVE SortResults(_)
SortResults(results) ==
    IF results = <<>> THEN <<>>
    ELSE InsertByKey(SortResults(SubSeq(results, 1, Len(results) - 1)),
                     results[Len(results)])

\* the results list of search after results.sort(...)
RankedResults(dc, cc, query, case_sensitive) ==
    SortResults(SearchLoop(dc, cc, query, case_sensitive, 1, <<>>))

\* search that counts the results after cutting the list
searchCountAfterCut(dc, cc, query, case_sensitive) ==
    LET results == Slice(RankedResults(dc, cc, query, case_sensitive), 0, MaxResults) IN
    [query |-> query,
     total_results |-> Len(results),
     results |-> results]

\* LocalDocsManager.search
search(dc, cc, query, case_sensitive) ==
    LET results == RankedResults(dc, cc, query, case_sensitive) IN
    [query |-> query,
     total_results |-> Len(results),
     results |-> Slice(results, 0, MaxResults)]

(***************************************************************************)
(* LocalDocsManager.list_documents                                         *)
(***************************************************************************)
\* the smallest string of a non-empty set, in the order of Python
MinStr(S) == CHOOSE x \in S : \A y \in S : y = x \/ StrLess(x, y)

\* sorted(set(...)) on strings
RECURSIVE SortedSet(_)
SortedSet(S) ==
    IF S = {} THEN <<>>
    ELSE LET m == MinStr(S) IN <<m>> \o SortedSet(S \ {m})

\* _get_versions_for_doc that returns the versions list as collected
get_versions_unsorted(dc, doc_name) ==
    LET HasName(entry) == entry.name = doc_name
        found == SelectSeq(dc, HasName)
    IN [k \in 1..Len(found) |-> found[k].xcode_source]

\* LocalDocsManager._get_versions_for_doc
get_versions_for_doc(dc, doc_name) ==
    SortedSet({dc[i].xcode_source : i \in {j \in 1..Len(dc) : dc[j].name = doc_name}})

\* ListLoop with the filter compared without lower()
RECURSIVE ListLoopCaseSensitive(_, _, _, _, _)
ListLoopCaseSensitive(dc, filter_str, i, seen_names, documents) ==
    IF i > Len(dc) THEN documents
    ELSE LET doc_name == dc[i].name IN
         IF doc_name \in seen_names
         THEN ListLoopCaseSensitive(dc, filter_str, i + 1, seen_names, documents)
         ELSE IF /\ filter_str.some
                 /\ filter_str.val # <<>>
                 /\ ~Contains(doc_name, filter_str.val)
         THEN ListLoopCaseSensitive(dc, filter_str, i + 1, seen_names, documents)
         ELSE ListLoopCaseSensitive(dc, filter_str, i + 1, seen_names \cup {doc_name},
                       Append(documents,
                              [name |-> doc_name,
                               topics |-> dc[i].topics,
                               size |-> dc[i].size,
                               xcode_versions |-> get_versions_for_doc(dc, doc_name)]))

\* the loop of list_documents over docs_cache.items() from position i on,
\* with the names seen so far and the documents appended so far
RECURSIVE ListLoop(_, _, _, _, _)
ListLoop(dc, filter_str, i, seen_names, documents) ==
    IF i > Len(dc) THEN documents
    ELSE LET doc_name == dc[i].name IN
         IF doc_name \in seen_names
         THEN ListLoop(dc, filter_str, i + 1, seen_names, documents)
         ELSE IF /\ filter_str.some
                 /\ filter_str.val # <<>>
                 /\ ~Contains(Lower(doc_name), Lower(filter_str.val))
         THEN ListLoop(dc, filter_str, i + 1, seen_names, documents)
         ELSE ListLoop(dc, filter_str, i + 1, seen_names \cup {doc_name},
                       Append(documents,
                              [name |-> doc_name,
                               topics |-> dc[i].topics,
                               size |-> dc[i].size,
                               xcode_versions |-> get_versions_for_doc(dc, doc_name)]))

\* documents.sort(key=lambda x: x["name"]), a stable sort
RECURSIVE InsertByName(_, _)
InsertByName(sorted, x) ==
    IF sorted = <<>> THEN <<x>>
    ELSE IF ~StrLess(x.name, sorted[1].name)
    THEN <<sorted[1]>> \o InsertByName(Tail(sorted), x)
    ELSE <<x>> \o sorted

RECURSIVE SortByName(_)
SortByName(documents) ==
    IF documents = <<>> THEN <<>>
    ELSE InsertByName(SortByName(SubSeq(documents, 1, Len(documents) - 1)),
                      documents[Len(documents)])

\* LocalDocsManager.list_documents
list_documents(dc, filter_str) == SortByName(ListLoop(dc, filter_str, 1, {}, <<>>))

(***************************************************************************)
(* LocalDocsManager.get_document                                           *)
(***************************************************************************)
\* the file at a stored path <<folder, stem>>, None when there is none
FileAt(d, doc_path) ==
    LET files == d[doc_path[1]].files
        at == {f \in 1..Len(files) : files[f].stem = doc_path[2]}
    IN IF at = {} THEN None ELSE Some(files[CHOOSE f \in at : TRUE])

\* what a call of get_document leaves: the string it returns, or the
\* exception read_text raises
ReturnedText(text) == [raised |-> FALSE, text |-> text]
ReadError == [raised |-> TRUE, text |-> <<>>]

\* f"Document '{name}' not found" + (f" in {xcode_version}" if xcode_version else "")
NotFound(name, xcode_version) ==
    <<"D", "o", "c", "u", "m", "e", "n", "t", " ", "'">> \o name \o <<"'", " ", "n", "o", "t", " ", "f", "o", "u", "n", "d">>
    \o (IF xcode_version.some /\ xcode_version.val # <<>>
        THEN <<" ", "i", "n", " ">> \o xcode_version.val ELSE <<>>)

\* does the entry pass the tests of lines 190-192 (name, then version)
Qualifies(entry, name, xcode_version) ==
    /\ SplitName(entry.key) = name \/ entry.name = name
    /\ ~(xcode_version.some /\ xcode_version.val # <<>>
         /\ xcode_version.val # entry.xcode_source)

\* get_document that reads a qualifying entry's file whether or not the
\* text is cached
GetLoopDiskFirst(dc, cc, d, name, xcode_version, i) ==
    LET hit == {j \in i..Len(dc) :
                   /\ Qualifies(dc[j], name, xcode_version)
                   /\ FileAt(d, dc[j].path).some}
    IN IF hit = {} THEN ReturnedText(NotFound(name, xcode_version))
       ELSE LET j == CHOOSE k \in hit : \A l \in hit : k <= l
                file == FileAt(d, dc[j].path).val
            IN IF file.readable THEN ReturnedText(file.text) ELSE ReadError

\* the loop of get_document from entry i on: the first qualifying entry whose
\* cached text is not empty answers with it; one whose cached text is empty
\* answers with the file read from disk when the file exists, and is passed
\* over when it does not
RECURSIVE GetLoop(_, _, _, _, _, _)
GetLoop(dc, cc, d, name, xcode_version, i) ==
    IF i > Len(dc) THEN ReturnedText(NotFound(name, xcode_version))
    ELSE IF ~Qualifies(dc[i], name, xcode_version)
    THEN GetLoop(dc, cc, d, name, xcode_version, i + 1)
    ELSE LET content == ContentGet(cc, dc[i].key)
             file == FileAt(d, dc[i].path)
         IN IF content # <<>> THEN ReturnedText(content)
            ELSE IF file.some
            THEN (IF file.val.readable THEN ReturnedText(file.val.text)
                  ELSE ReadError)
            ELSE GetLoop(dc, cc, d, name, xcode_version, i + 1)

get_document(dc, cc, d, name, xcode_version) ==
    GetLoop(dc, cc, d, name, xcode_version, 1)

(***************************************************************************)
(* LocalDocsManager.get_xcode_versions                                     *)
(***************************************************************************)
\* get_xcode_versions that returns the tags in the order of the index
get_xcode_versions_unsorted(dc) ==
    [i \in 1..Len(dc) |-> dc[i].xcode_source]

get_xcode_versions(dc) ==
    SortedSet({dc[i].xcode_source : i \in 1..Len(dc)})

(***************************************************************************)
(* tools.py: the checks of the tools before they call the manager          *)
(***************************************************************************)
\* tools.py:96  if len(query) > 500
MaxQueryLength == 500
\* tools.py:125  if len(name) > 255
MaxNameLength == 255

\* search_docs, lines 89-100: "ok", or the error it returns
CheckQuery(query) ==
    IF query = <<>> \/ Strip(query) = <<>> THEN "Empty query"
    ELSE IF Len(query) > MaxQueryLength THEN "Query too long"
    ELSE "ok"

\* CheckName that lets the backslash through
CheckNameSlashOnly(name) ==
    IF \/ name = <<>>
       \/ Contains(name, <<".", ".">>)
       \/ Contains(name, <<"/">>)
    THEN "Invalid document name"
    ELSE IF Len(name) > MaxNameLength THEN "Document name too long"
    ELSE "ok"

\* get_document, lines 121-126: "ok", or the error it returns
CheckName(name) ==
    IF \/ name = <<>>
       \/ Contains(name, <<".", ".">>)
       \/ Contains(name, <<"/">>)
       \/ Contains(name, <<"\\">>)
    THEN "Invalid document name"
    ELSE IF Len(name) > MaxNameLength THEN "Document name too long"
    ELSE "ok"

(***************************************************************************)
(* The corpora and the arguments the model draws from.                     *)
(***************************************************************************)
\* the installations under /Applications, in the order glob yields them
AppNames ==
    << Xcode \o DotApp \o Separator \o <<"b">> \o DotApp,
       Xcode \o DotApp >>

\* the stems of the .md files
Stems ==
    << <<"A", "b">>,
       <<"b">> \o DotApp \o Separator \o <<"c">>,
       <<"c">> >>

\* a text whose only "a" has more than ContextChars characters on both sides,
\* with whitespace where the context window is cut
LongText ==
    Rep("b", 4) \o <<" ", "\n">> \o Rep("b", ContextChars - 1) \o <<"a">>
    \o Rep("b", ContextChars - 2) \o <<"\t", " ">> \o Rep("b", 3) \o <<"A">>

\* the texts of the .md files
Texts ==
    { <<>>,
      <<"a", "b">>,
      <<"#", " ", "a", " ", " ", "A", "\n", "a", "a", " ", "a", "a", "a">>,
      LongText }

\* the queries and filters
Queries ==
    { <<>>, <<"a">>, <<"A", "b">>, <<"b">>, <<"c">>, <<" ">>, <<"a", " ">> }

\* what a file is: its text, and whether read_text succeeds on it
FileKinds ==
    {[text |-> t, readable |-> TRUE] : t \in Texts}
    \cup {[text |-> <<"a", "b">>, readable |-> FALSE]}

\* the places a file can be at: <<installation, stem>>
Slots == (1..Len(AppNames)) \X (1..Len(Stems))

\* the files of installation a, in the order of Stems, when the files of the
\* disk are those of the places in S, of the kinds given by kind
RECURSIVE FilesOf(_, _, _, _)
FilesOf(a, S, kind, k) ==
    IF k > Len(Stems) THEN <<>>
    ELSE (IF <<a, k>> \in S
          THEN <<[stem |-> Stems[k],
                  text |-> kind[<<a, k>>].text,
                  readable |-> kind[<<a, k>>].readable]>>
          ELSE <<>>) \o FilesOf(a, S, kind, k + 1)

SmallDisk(S, kind) ==
    [a \in 1..Len(AppNames) |-> [name |-> AppNames[a], files |-> FilesOf(a, S, kind, 1)]]

\* the large corpus: one installation with BigFiles files, stems of three
\* letters, texts of one to seven "a" followed by one "b"
Letters == <<"a", "b", "c">>
BigStem(n) ==
    <<Letters[(n % 3) + 1], Letters[((n \div 3) % 3) + 1], Letters[((n \div 9) % 3) + 1]>>
BigDisk ==
    << [name |-> Xcode \o DotApp,
        files |-> [n \in 1..BigFiles |->
                     [stem |-> BigStem(n),
                      text |-> Rep("a", 1 + (n % 7)) \o <<"b">>,
                      readable |-> TRUE]]] >>

\* the corpora whose installations are named by the override: files that
\* all hold the same text
PlainKinds == {[text |-> <<"a", "b">>, readable |-> TRUE]}

\* the values of XCODE_DOC_PATH that are set: the empty string, a path that
\* is not on the disk, the folder of an installation
Overrides ==
    {Some(EmptyPath), Some(NoSuchPath)} \cup {Some(a) : a \in 1..Len(AppNames)}

\* the corpora that are edited while the server runs: files that are empty
\* or not, and the text an edit writes
EditedKinds ==
    {[text |-> <<>>, readable |-> TRUE], [text |-> <<"a", "b">>, readable |-> TRUE]}
Rewritten == <<"c", "d">>

\* the disk after the file f of installation a was rewritten
WriteFile(d, a, f, text) ==
    [d EXCEPT ![a].files[f].text = text]

\* the disk after the file f of installation a was removed
RemoveFile(d, a, f) ==
    [d EXCEPT ![a].files = SubSeq(@, 1, f - 1) \o SubSeq(@, f + 1, Len(@))]

\* the disk after the file f of installation a was overwritten with bytes
\* that read_text cannot decode
SpoilFile(d, a, f) ==
    [d EXCEPT ![a].files[f].readable = FALSE]

\* the corpora with headings: one file of 'Xcode.app' whose text has more
\* than MaxTopics headings between lines that are none, or a heading cut by
\* the end of the preview, or a line of "#" alone before a line of text
HeadingTexts ==
    { <<"#", " ", "a", "\n", "#", "#", "\t", "b", " ", "c", "\n", "#", "#", "#", " ", " ", "d", "\n",
        "#", "#", "#", "#", " ", "e", "\n", "#", "f", "\n", " ", "#", " ", "g", "\n", "\n",
        "#", " ", "h", "\n", "#", " ", "i", "\n", "#", " ", "j", "\n", "#", " ", "k">>,
      Rep("b", TopicPreviewChars - 4) \o <<"\n", "#", " ", "c", "d", "\n", "#", " ", "e">>,
      <<"#", "\n", "a", "b">> }
HeadingSlot == {<<2, 1>>}

\* the names and versions asked of get_document: the stems, the text after
\* the first "::" of a key of two tags, and the names the tool refuses: with
\* a path separator, with "..", with a backslash, empty, too long
Names ==
    {Stems[k] : k \in 1..Len(Stems)}
    \cup {<<"b">> \o DotApp \o Separator \o <<"A", "b">>, <<"c", "/">>}
    \cup {<<".", ".">>, <<"c", "\\">>, <<>>, Rep("a", MaxNameLength + 1)}
Versions == {None, Some(<<>>)} \cup {Some(AppNames[a]) : a \in 1..Len(AppNames)}

\* the queries given to the tools: those above and one that is too long
ToolQueries == Queries \cup {Rep("a", MaxQueryLength + 1)}

(***************************************************************************)
(* The state machine.                                                      *)
(***************************************************************************)
NoResponse == [op |-> "none"]
NoBuild == [some |-> FALSE, docs |-> <<>>, content |-> <<>>]

\* LocalDocsManager.__init__: empty dictionaries, then initialize()
Init ==
    /\ \/ /\ \/ \E S \in {T \in SUBSET Slots : Cardinality(T) <= MaxFiles} :
                   \E kind \in [S -> FileKinds] : disk = SmallDisk(S, kind)
             \/ disk = BigDisk
          /\ env = None
          /\ edit = "frozen"
       \/ /\ \E S \in {T \in SUBSET Slots : Cardinality(T) <= MaxFiles} :
                \E kind \in [S -> PlainKinds] : disk = SmallDisk(S, kind)
          /\ env \in Overrides
          /\ edit = "frozen"
       \/ /\ \E S \in {T \in SUBSET Slots : Cardinality(T) <= MaxEditedFiles} :
                \E kind \in [S -> EditedKinds] : disk = SmallDisk(S, kind)
          /\ env = None
          /\ edit = "pending"
       \/ /\ \E t \in HeadingTexts :
                disk = SmallDisk(HeadingSlot,
                                 [s \in HeadingSlot |-> [text |-> t, readable |-> TRUE]])
          /\ env = None
          /\ edit = "frozen"
    /\ doc_paths = <<>>
    /\ docs_cache = <<>>
    /\ content_cache = <<>>
    /\ pc = "start"
    /\ ri = 1
    /\ fi = 1
    /\ resp = NoResponse
    /\ config_error = FALSE
    /\ first_build = NoBuild
    /\ mode = "docs"
    /\ hour = 0
    /\ serial = 0
    /\ apple_docs_cache = <<>>
    /\ swift_repos_cache = <<>>
    /\ fetched = NoResponse

\* initialize() returns: to __init__ the first time, to its caller later
InitializeReturns ==
    /\ pc' = IF first_build.some THEN "answered" ELSE "ready"
    /\ resp' = IF first_build.some THEN [op |-> "initialize"] ELSE resp
    /\ first_build' = IF first_build.some THEN first_build
                ELSE [some |-> TRUE, docs |-> docs_cache, content |-> content_cache]

\* initialize(), lines 59-65: the folders are located; when
\* get_documentation_paths raises, the error is logged, doc_paths is emptied
\* and initialize returns
GetDocumentationPaths ==
    /\ pc = "start"
    /\ LET got == get_documentation_paths(disk, env) IN
       IF got.raised
       THEN /\ doc_paths' = <<>>
            /\ config_error' = TRUE
            /\ UNCHANGED <<docs_cache, content_cache, ri, fi>>
            /\ InitializeReturns
       ELSE /\ doc_paths' = got.paths
            /\ config_error' = FALSE
            /\ ri' = FirstFolder(disk, got.paths, 1)
            /\ fi' = 1
            /\ pc' = "load"
            /\ UNCHANGED <<docs_cache, content_cache, resp, first_build>>
    /\ UNCHANGED <<disk, env, edit>>
    /\ UNCHANGED fetch_vars

\* initialize(), lines 72-97: one file of one folder is loaded
LoadFile ==
    /\ pc = "load"
    /\ ri <= Len(doc_paths)
    /\ LET path == doc_paths[ri]
           caches == IndexFile([docs |-> docs_cache, content |-> content_cache],
                               get_xcode_name_from_path(disk, path), path,
                               disk[path].files[fi])
           next == NextPosition(disk, doc_paths, ri, fi)
       IN /\ docs_cache' = caches.docs
          /\ content_cache' = caches.content
          /\ ri' = next[1]
          /\ fi' = next[2]
    /\ UNCHANGED <<disk, env, edit, doc_paths, pc, resp, config_error, first_build>>
    /\ UNCHANGED fetch_vars

\* initialize(), lines 99-102: every folder is done, the summary is logged
FinishInitialize ==
    /\ pc = "load"
    /\ ri > Len(doc_paths)
    /\ InitializeReturns
    /\ UNCHANGED <<disk, env, edit, doc_paths, docs_cache, content_cache, ri, fi,
                   config_error>>
    /\ UNCHANGED fetch_vars

\* a call of initialize() on the manager that is built
Initialize ==
    /\ pc = "ready"
    /\ pc' = "start"
    /\ ri' = 1
    /\ fi' = 1
    /\ UNCHANGED <<disk, env, edit, doc_paths, docs_cache, content_cache, resp,
                   config_error, first_build>>
    /\ UNCHANGED fetch_vars

\* Serving that starts before the build is over
ServingEarly == pc \in {"load", "ready"}

\* the server takes calls: main() reaches mcp.run() when the import of tools,
\* and with it the construction of local_docs, has returned
Serving == pc = "ready"

\* tools.search_docs: the query is checked, then local_docs.search is called
\* with the stripped query
SearchDocs ==
    /\ Serving
    /\ \E query \in ToolQueries, case_sensitive \in BOOLEAN :
          resp' = IF CheckQuery(query) # "ok"
                  THEN [op |-> "error", tool |-> "search_docs",
                        error |-> CheckQuery(query)]
                  ELSE [op |-> "search",
                        tool |-> "search_docs",
                        query |-> Strip(query),
                        case_sensitive |-> case_sensitive,
                        out |-> search(docs_cache, content_cache,
                                       Strip(query), case_sensitive)]
    /\ pc' = "answered"
    /\ UNCHANGED <<disk, env, edit, doc_paths, docs_cache, content_cache, ri, fi,
                   config_error, first_build>>
    /\ UNCHANGED fetch_vars

\* tools.search_apple_online, line 254: local_docs.search(query), with the
\* query as it was given and case_sensitive left at its default
SearchAppleOnline ==
    /\ Serving
    /\ \E query \in ToolQueries :
          resp' = [op |-> "search",
                   tool |-> "search_apple_online",
                   query |-> query,
                   case_sensitive |-> FALSE,
                   out |-> search(docs_cache, content_cache, query, FALSE)]
    /\ pc' = "answered"
    /\ UNCHANGED <<disk, env, edit, doc_paths, docs_cache, content_cache, ri, fi,
                   config_error, first_build>>
    /\ UNCHANGED fetch_vars

\* GetDocument that keeps the text it returns in content_cache
GetDocumentCaching ==
    /\ Serving
    /\ \E name \in Names, xcode_version \in Versions :
          /\ CheckName(name) = "ok"
          /\ LET out == get_document(docs_cache, content_cache, disk,
                                     name, xcode_version)
                 hit == {i \in 1..Len(docs_cache) :
                            Qualifies(docs_cache[i], name, xcode_version)}
             IN /\ resp' = [op |-> "get_document", name |-> name,
                            xcode_version |-> xcode_version, out |-> out]
                /\ content_cache' =
                      IF hit = {} \/ out.raised THEN content_cache
                      ELSE DictSet(content_cache,
                                   [key |-> docs_cache[CHOOSE i \in hit :
                                                          \A j \in hit : i <= j].key,
                                    content |-> out.text])
    /\ pc' = "answered"
    /\ UNCHANGED <<disk, env, edit, doc_paths, docs_cache, ri, fi,
                   config_error, first_build>>
    /\ UNCHANGED fetch_vars

\* tools.get_document: the name is checked, then local_docs.get_document is
\* called
GetDocument ==
    /\ Serving
    /\ \E name \in Names, xcode_version \in Versions :
          resp' = IF CheckName(name) # "ok"
                  THEN [op |-> "error", tool |-> "get_document",
                        name |-> name, error |-> CheckName(name)]
                  ELSE [op |-> "get_document",
                        name |-> name,
                        xcode_version |-> xcode_version,
                        out |-> get_document(docs_cache, content_cache, disk,
                                             name, xcode_version)]
    /\ pc' = "answered"
    /\ UNCHANGED <<disk, env, edit, doc_paths, docs_cache, content_cache, ri, fi,
                   config_error, first_build>>
    /\ UNCHANGED fetch_vars

\* tools.list_documents: a call of local_docs.list_documents
ListDocuments ==
    /\ Serving
    /\ \E filter_str \in {None} \cup {Some(q) : q \in Queries} :
          resp' = [op |-> "list_documents",
                   filter_str |-> filter_str,
                   out |-> list_documents(docs_cache, filter_str)]
    /\ pc' = "answered"
    /\ UNCHANGED <<disk, env, edit, doc_paths, docs_cache, content_cache, ri, fi,
                   config_error, first_build>>
    /\ UNCHANGED fetch_vars

\* tools.get_xcode_versions: a call of local_docs.get_xcode_versions
GetXcodeVersions ==
    /\ Serving
    /\ resp' = [op |-> "get_xcode_versions", out |-> get_xcode_versions(docs_cache)]
    /\ pc' = "answered"
    /\ UNCHANGED <<disk, env, edit, doc_paths, docs_cache, content_cache, ri, fi,
                   config_error, first_build>>
    /\ UNCHANGED fetch_vars

\* a file of the corpus is rewritten, removed or made undecodable by
\* another process while the server runs
EditFile ==
    /\ pc = "ready"
    /\ edit = "pending"
    /\ \E a \in 1..Len(disk) : \E f \in 1..Len(disk[a].files) :
          disk' \in {WriteFile(disk, a, f, Rewritten),
                     RemoveFile(disk, a, f),
                     SpoilFile(disk, a, f)}
    /\ edit' = "done"
    /\ UNCHANGED <<env, doc_paths, docs_cache, content_cache, pc, ri, fi, resp,
                   config_error, first_build>>
    /\ UNCHANGED fetch_vars

\* the caller takes the answer; the manager is ready for the next call
Return ==
    /\ pc = "answered"
    /\ pc' = "ready"
    /\ resp' = NoResponse
    /\ UNCHANGED <<disk, env, edit, doc_paths, docs_cache, content_cache, ri, fi,
                   config_error, first_build>>
    /\ UNCHANGED fetch_vars

Next ==
    \/ GetDocumentationPaths
    \/ LoadFile
    \/ FinishInitialize
    \/ Initialize
    \/ SearchDocs
    \/ SearchAppleOnline
    \/ GetDocument
    \/ ListDocuments
    \/ GetXcodeVersions
    \/ EditFile
    \/ Return

Spec == Init /\ [][Next]_vars

(***************************************************************************)
(* Properties.                                                             *)
(***************************************************************************)
\* initialize() has returned
Built == pc \in {"ready", "answered"}

\* the <<installation tag, stem>> pairs of the files initialize() loads: the
\* readable files of the folders that were located
LoadedPairs ==
    UNION {{<<disk[doc_paths[r]].name, disk[doc_paths[r]].files[f].stem>> :
               f \in {g \in 1..Len(disk[doc_paths[r]].files) :
                        disk[doc_paths[r]].files[g].readable}} :
           r \in 1..Len(doc_paths)}

\* the entries of the metadata dictionary that belong to a pair
EntriesOf(pair) ==
    {i \in 1..Len(docs_cache) :
        docs_cache[i].xcode_source = pair[1] /\ docs_cache[i].name = pair[2]}

\* C1: after the build the index holds exactly one entry for every
\* (installation tag, stem) pair that was loaded, so that no pair overwrites
\* another one.  The code joins tag and stem with "::" without escaping:
\* ("Xcode.app::b.app", "c") and ("Xcode.app", "b.app::c") get the same key.
C1_OneEntryPerPair ==
    Built => \A pair \in LoadedPairs : Cardinality(EntriesOf(pair)) = 1

\* C2: after the build, also one in which files failed to load, the metadata
\* dictionary and the content dictionary have the same keys.
C2_SameKeySets == Built => Keys(docs_cache) = Keys(content_cache)

\* a build that indexed a file and skipped another one that failed to load
C2_Witness ==
    /\ pc = "ready"
    /\ docs_cache # <<>>
    /\ \E r \in 1..Len(doc_paths) : \E f \in 1..Len(disk[doc_paths[r]].files) :
          ~disk[doc_paths[r]].files[f].readable
\* the last call was a search, and resp holds its arguments and its answer
Searched == resp.op = "search"

\* the list search sorts and cuts, and the list it builds before sorting
\* (the documents in the order the index is walked), for the call in resp
Ranked == RankedResults(docs_cache, content_cache, resp.query, resp.case_sensitive)
Encountered == SearchLoop(docs_cache, content_cache, resp.query, resp.case_sensitive, 1, <<>>)

\* in the list xs no document without a filename match stands before one with
FilenameFirst(xs) ==
    \A j \in 1..Len(xs) :
        HasFilenameMatch(xs[j]) => \A i \in 1..(j - 1) : HasFilenameMatch(xs[i])

\* C3: in the ranked list, and in the results returned, every document with
\* a filename match stands before every document without one, whatever the
\* numbers of matches are.
C3_FilenameFirst ==
    Searched =>
        LET ranked == Ranked IN
        FilenameFirst(ranked) /\ FilenameFirst(resp.out.results)

\* a document with a filename match is returned before a document without
\* one that has more matches
C3_Witness ==
    /\ Searched
    /\ \E i, j \in 1..Len(resp.out.results) :
          /\ i < j
          /\ HasFilenameMatch(resp.out.results[i])
          /\ ~HasFilenameMatch(resp.out.results[j])
          /\ resp.out.results[j].total_matches > resp.out.results[i].total_matches

\* the documents of xs with a filename match, and those without, in order
WithFilename(xs) == SelectSeq(xs, HasFilenameMatch)
NoFilenameMatch(x) == ~HasFilenameMatch(x)
WithoutFilename(xs) == SelectSeq(xs, NoFilenameMatch)

\* where the a-th document of group, a list in encounter order, belongs:
\* behind the documents with more matches and behind the earlier documents
\* with as many
PlaceInGroup(group, a) ==
    1 + Cardinality({b \in 1..Len(group) :
            \/ group[b].total_matches > group[a].total_matches
            \/ group[b].total_matches = group[a].total_matches /\ b < a})

\* the list sorted is the list group in descending order of total_matches,
\* ties in the order of group
OrderedWithinGroup(sorted, group) ==
    /\ Len(sorted) = Len(group)
    /\ \A a \in 1..Len(group) : sorted[PlaceInGroup(group, a)] = group[a]

\* C4: within the documents with a filename match, and within those without,
\* the ranked list is in descending order of total_matches, and documents
\* with equal total_matches keep the order in which the index was walked.
C4_OrderWithinGroups ==
    Searched =>
        LET ranked == Ranked
            encountered == Encountered
            rankedWith == WithFilename(ranked)
            rankedWithout == WithoutFilename(ranked)
            metWith == WithFilename(encountered)
            metWithout == WithoutFilename(encountered)
        IN /\ OrderedWithinGroup(rankedWith, metWith)
           /\ OrderedWithinGroup(rankedWithout, metWithout)
           /\ resp.out.results = SubSeq(ranked, 1, Min(MaxResults, Len(ranked)))

\* a search in which a group was met in an order the sort had to change, and
\* in which two different documents of a group tie
C4_Witness ==
    /\ Searched
    /\ LET met == Encountered IN
       /\ \E a, b \in 1..Len(met) :
             /\ a < b
             /\ HasFilenameMatch(met[a]) = HasFilenameMatch(met[b])
             /\ met[a].total_matches < met[b].total_matches
       /\ \E c, d \in 1..Len(met) :
             /\ c < d
             /\ HasFilenameMatch(met[c]) = HasFilenameMatch(met[d])
             /\ met[c].total_matches = met[d].total_matches

\* the offsets at which the query of the call in resp occurs in text
OccurrencesIn(text) ==
    {o \in 0..Len(text) : MatchAt(resp.query, text, o, resp.case_sensitive)}

\* C5: no result carries more than 5 matches, filename and content matches
\* together, and no response holds more than 20 results.
C5_Caps ==
    Searched =>
        /\ Len(resp.out.results) <= 20
        /\ \A k \in 1..Len(resp.out.results) :
              /\ Len(resp.out.results[k].matches) <= 5
              /\ resp.out.results[k].total_matches <= 5

\* more than 20 documents matched, and a one-letter query occurs more than 5
\* times in the text of an indexed document
C5_Witness ==
    /\ Searched
    /\ resp.out.total_results > 20
    /\ Len(resp.query) = 1
    /\ \E i \in 1..Len(content_cache) :
          Cardinality(OccurrencesIn(content_cache[i].content)) > 5
\* the text the index holds for its i-th entry
TextOf(i) == ContentGet(content_cache, docs_cache[i].key)

\* the query of the call in resp occurs in text
OccursIn(text) == OccurrencesIn(text) # {}

\* C6: for a non-empty query the documents search counts are exactly the
\* indexed documents whose stem or whose text contains the query (exactly,
\* or ignoring case), and every result has a match.  The code does not look
\* at the stem but at the key cut behind its first "::": for the
\* installation "Xcode.app::b.app" that is "b.app::" followed by the stem.
C6_CountedIffStemOrText ==
    Searched /\ resp.query # <<>> =>
        /\ resp.out.total_results =
              Cardinality({i \in 1..Len(docs_cache) :
                              OccursIn(docs_cache[i].name) \/ OccursIn(TextOf(i))})
        /\ \A k \in 1..Len(resp.out.results) : resp.out.results[k].matches # <<>>

\* C7: the response echoes the query, total_results is the number of index
\* entries with a match (counted before the list is cut), results is the
\* first 20 entries of the ranked list, and total_matches of every result is
\* the length of its matches.
C7_ResponseShape ==
    Searched =>
        LET ranked == Ranked IN
        /\ resp.out.query = resp.query
        /\ resp.out.total_results =
              Cardinality({i \in 1..Len(docs_cache) :
                  DocMatches(resp.query, resp.case_sensitive,
                             docs_cache[i].key, TextOf(i)) # <<>>})
        /\ resp.out.total_results = Len(ranked)
        /\ Len(resp.out.results) = IF Len(ranked) < 20 THEN Len(ranked) ELSE 20
        /\ \A k \in 1..Len(resp.out.results) :
              /\ resp.out.results[k] = ranked[k]
              /\ resp.out.results[k].total_matches = Len(resp.out.results[k].matches)

\* more documents matched than the response returns
C7_Witness ==
    /\ Searched
    /\ resp.out.total_results > 20
    /\ Len(resp.out.results) = 20

\* the positions of the characters of s that are not whitespace
IsSolid(pair) == ~IsSpace(pair[1])
SolidPositions(s) ==
    LET solid == SelectSeq([i \in 1..Len(s) |-> <<s[i], i>>], IsSolid) IN
    [k \in 1..Len(solid) |-> solid[k][2]]

\* c is w with leading and trailing whitespace removed and every internal
\* run of whitespace replaced by one space: the same non-blank characters,
\* none at the ends missing, one space between two of them exactly where w
\* has whitespace between them
IsNormalised(c, w) ==
    LET pc_ == SolidPositions(c)
        pw == SolidPositions(w)
    IN /\ Len(pc_) = Len(pw)
       /\ \A k \in 1..Len(pw) : c[pc_[k]] = w[pw[k]]
       /\ \A i \in 1..Len(c) : IsSpace(c[i]) => c[i] = " "
       /\ IF Len(pw) = 0 THEN c = <<>>
          ELSE pc_[1] = 1 /\ pc_[Len(pc_)] = Len(c)
       /\ \A k \in 1..(Len(pw) - 1) :
             pc_[k + 1] - pc_[k] = IF pw[k + 1] - pw[k] > 1 THEN 2 ELSE 1

\* the index entries a result of search comes from
SourcesOf(result) ==
    {i \in 1..Len(docs_cache) :
        /\ SplitName(docs_cache[i].key) = result.document
        /\ docs_cache[i].xcode_source = result.xcode_version}

\* the content matches of a result
ContentMatchesOf(result) ==
    {result.matches[k] : k \in {j \in 1..Len(result.matches) :
                                  result.matches[j].type = "content"}}

\* C8: a content match at offset s of a text of length n, for a query of
\* length q, reports the position s, where the query occurs in the text, and
\* the context text[max(0, s-50) .. min(n, s+q+50)) with the whitespace at
\* its ends removed and every whitespace run inside replaced by one space.
C8_ContextWindow ==
    Searched =>
        \A k \in 1..Len(resp.out.results) :
            LET sources == SourcesOf(resp.out.results[k]) IN
            /\ Cardinality(sources) = 1
            /\ \A i \in sources :
               LET text == TextOf(i) IN
               \A m \in ContentMatchesOf(resp.out.results[k]) :
                  LET s == m.position
                      e == m.position + Len(resp.query)
                  IN /\ MatchAt(resp.query, text, s, resp.case_sensitive)
                     /\ IsNormalised(m.context,
                           SubSeq(text,
                                  (IF s - 50 > 0 THEN s - 50 ELSE 0) + 1,
                                  IF e + 50 < Len(text) THEN e + 50 ELSE Len(text)))

\* a content match with more than 50 characters on either side, whose window
\* is cut inside the text, and another one whose context lost whitespace
C8_Witness ==
    /\ Searched
    /\ \E k \in 1..Len(resp.out.results) :
       \E i \in SourcesOf(resp.out.results[k]) :
          /\ \E m \in ContentMatchesOf(resp.out.results[k]) :
                /\ m.position > 50
                /\ m.position + Len(resp.query) + 50 < Len(TextOf(i))
                /\ Len(m.context) < Len(resp.query) + 100
          /\ \E m \in ContentMatchesOf(resp.out.results[k]) :
                /\ m.position + Len(resp.query) + 50 >= Len(TextOf(i))
                /\ m.position > 50
                /\ Len(m.context) < Len(TextOf(i)) - (m.position - 50)
\* the last call was list_documents
Listed == resp.op = "list_documents"

\* the stems of the index, and the installation tags a stem is indexed under
IndexedNames == {docs_cache[i].name : i \in 1..Len(docs_cache)}
TagsOf(name) ==
    {docs_cache[i].xcode_source :
        i \in {j \in 1..Len(docs_cache) : docs_cache[j].name = name}}

\* the strings of xs are in strictly ascending order
StrictlyAscending(xs) == \A k \in 1..(Len(xs) - 1) : StrLess(xs[k], xs[k + 1])

\* the stems list_documents has to show for a filter: all of them without a
\* filter, else those the filter occurs in when letter case is ignored
Shown(filter_str) ==
    {name \in IndexedNames :
        \/ ~filter_str.some
        \/ \E o \in 0..Len(name) : MatchAt(filter_str.val, name, o, FALSE)}

\* C9: list_documents returns one summary per stem, never two for the same
\* stem (every indexed stem when no filter is given), and the xcode_versions
\* of a stem indexed under N installations are exactly these N tags, in
\* ascending order and without duplicates.
C9_OneSummaryPerStem ==
    Listed =>
        /\ \A k, l \in 1..Len(resp.out) :
              resp.out[k].name = resp.out[l].name => k = l
        /\ ~resp.filter_str.some =>
              {resp.out[k].name : k \in 1..Len(resp.out)} = IndexedNames
        /\ \A k \in 1..Len(resp.out) :
              LET versions == resp.out[k].xcode_versions IN
              /\ resp.out[k].name \in IndexedNames
              /\ StrictlyAscending(versions)
              /\ {versions[n] : n \in 1..Len(versions)} = TagsOf(resp.out[k].name)
              /\ Len(versions) = Cardinality(TagsOf(resp.out[k].name))

\* a stem indexed under two installations, the later tag first in the index
C9_Witness ==
    /\ Listed
    /\ \E k \in 1..Len(resp.out) : Len(resp.out[k].xcode_versions) = 2
    /\ \E i, j \in 1..Len(docs_cache) :
          /\ i < j
          /\ docs_cache[i].name = docs_cache[j].name
          /\ StrLess(docs_cache[j].xcode_source, docs_cache[i].xcode_source)

\* C10: list_documents returns the summaries of exactly the stems that
\* contain the filter when both are compared ignoring letter case (of all
\* stems without a filter), in ascending order of the stem.
C10_FilterAndOrder ==
    Listed =>
        /\ {resp.out[k].name : k \in 1..Len(resp.out)} = Shown(resp.filter_str)
        /\ StrictlyAscending([k \in 1..Len(resp.out) |-> resp.out[k].name])

\* a filter that matches stems only when letter case is ignored, keeps some
\* stems out, and selects stems the index holds in another order
C10_Witness ==
    /\ Listed
    /\ resp.filter_str.some
    /\ Len(resp.out) >= 2
    /\ \E k \in 1..Len(resp.out) : ~Contains(resp.out[k].name, resp.filter_str.val)
    /\ Shown(resp.filter_str) # IndexedNames
    /\ \E i, j \in 1..Len(docs_cache) :
          /\ i < j
          /\ {docs_cache[i].name, docs_cache[j].name} \subseteq Shown(resp.filter_str)
          /\ StrLess(docs_cache[j].name, docs_cache[i].name)

\* get_xcode_versions has answered
VersionsListed == pc = "answered" /\ resp.op = "get_xcode_versions"

\* the installation tags of the entries of the index
IndexedTags == {docs_cache[i].xcode_source : i \in 1..Len(docs_cache)}

\* C11: get_xcode_versions returns, in ascending order and without
\* duplicates, exactly the installation tags that own an entry of the index.
C11_InstallationTags ==
    VersionsListed =>
       /\ StrictlyAscending(resp.out)
       /\ {resp.out[k] : k \in 1..Len(resp.out)} = IndexedTags

\* two tags are returned, and the index holds the later one first
C11_Witness ==
    /\ VersionsListed
    /\ Len(resp.out) = 2
    /\ \E i, j \in 1..Len(docs_cache) :
          i < j /\ StrLess(docs_cache[j].xcode_source, docs_cache[i].xcode_source)

\* no override is set and discovery finds no folder with a .md file
NothingFound ==
    ~IsSet(env) /\ edit # "done" /\ find_xcode_documentation_paths(disk) = <<>>

\* C12: when no override is set and discovery finds nothing, initialize()
\* catches the configuration error and returns, the index stays empty, and
\* every search returns total_results 0 and no results.
C12_EmptyCorpus ==
    (Built /\ NothingFound) =>
       /\ config_error
       /\ doc_paths = <<>>
       /\ docs_cache = <<>>
       /\ content_cache = <<>>
       /\ Searched => (resp.out.total_results = 0 /\ resp.out.results = <<>>)

\* a search for a query that is not empty, answered from the empty index
C12_Witness ==
    /\ NothingFound
    /\ config_error
    /\ Searched
    /\ resp.query = <<"a">>

\* C13: when XCODE_DOC_PATH names a path, get_documentation_paths returns
\* that path as the only root if it exists, whatever discovery would find,
\* and raises the configuration error if it does not exist (initialize()
\* then leaves no root).  An empty XCODE_DOC_PATH names no path.
C13_Override ==
    (IsSet(env) /\ (Built \/ pc = "load")) =>
       IF PathExists(disk, env.val)
       THEN /\ get_documentation_paths(disk, env) = Returned(<<env.val>>)
            /\ doc_paths = <<env.val>>
            /\ ~config_error
       ELSE /\ get_documentation_paths(disk, env) = ValueError
            /\ doc_paths = <<>>
            /\ config_error

\* the override names a folder without a .md file while discovery would find
\* another installation: the build has that folder as its only root
C13_Witness ==
    /\ Built
    /\ IsSet(env)
    /\ doc_paths = <<env.val>>
    /\ find_xcode_documentation_paths(disk) # <<>>
    /\ \A r \in 1..Len(find_xcode_documentation_paths(disk)) :
          find_xcode_documentation_paths(disk)[r] # env.val
    /\ docs_cache = <<>>

\* the disk without the files that cannot be read
ReadableOnly(d) ==
    [a \in 1..Len(d) |->
        [name |-> d[a].name,
         files |-> SelectSeq(d[a].files, LAMBDA file : file.readable)]]

\* the dictionaries the loading loop leaves when it runs over the folders in
\* paths from the position <<r, f>> on
RECURSIVE LoadedFrom(_, _, _, _, _)
LoadedFrom(d, paths, caches, r, f) ==
    IF r > Len(paths) THEN caches
    ELSE LET next == NextPosition(d, paths, r, f) IN
         LoadedFrom(d, paths,
                    IndexFile(caches, get_xcode_name_from_path(d, paths[r]),
                              paths[r], d[paths[r]].files[f]),
                    next[1], next[2])

\* the index of a build over the same roots of a disk
IndexOf(d, paths) ==
    LoadedFrom(d, paths, [docs |-> <<>>, content |-> <<>>],
               FirstFolder(d, paths, 1), 1)

\* the <<installation tag, stem>> pairs of the files that fail to load
FailedPairs ==
    UNION {{<<disk[doc_paths[r]].name, disk[doc_paths[r]].files[f].stem>> :
               f \in {g \in 1..Len(disk[doc_paths[r]].files) :
                        ~disk[doc_paths[r]].files[g].readable}} :
           r \in 1..Len(doc_paths)}

\* C14: a file that fails to load does not end the build: when initialize()
\* has returned (and no file was rewritten since), the index is the
\* one a build over the same roots without the failing files leaves (every
\* readable file is loaded as if the failing ones were not there), and a
\* failing file has an entry in neither dictionary (a key equal to its key
\* belongs to a readable file).
C14_FailedFileSkipped ==
    (Built /\ edit # "done") =>
       LET index == IndexOf(ReadableOnly(disk), doc_paths) IN
       /\ docs_cache = index.docs
       /\ content_cache = index.content
       /\ \A pair \in FailedPairs :
             /\ EntriesOf(pair) = {}
             /\ CompositeKey(pair[1], pair[2]) \in Keys(docs_cache) \cup Keys(content_cache)
                => \E q \in LoadedPairs :
                      CompositeKey(q[1], q[2]) = CompositeKey(pair[1], pair[2])

\* the first file of a folder fails to load and the file behind it is indexed
C14_Witness ==
    /\ Built
    /\ \E r \in 1..Len(doc_paths) :
          /\ Len(disk[doc_paths[r]].files) = 2
          /\ ~disk[doc_paths[r]].files[1].readable
          /\ disk[doc_paths[r]].files[2].readable
          /\ EntriesOf(<<disk[doc_paths[r]].name, disk[doc_paths[r]].files[2].stem>>) # {}

\* get_document has answered
Got == pc = "answered" /\ resp.op = "get_document"

\* a version is given (None and the empty string are both false)
VersionGiven(xcode_version) == xcode_version.some /\ xcode_version.val # <<>>

\* the entries whose stem is the name and, when a version is given, whose
\* installation tag is that version
EntriesNamed(name, xcode_version) ==
    {i \in 1..Len(docs_cache) :
        /\ docs_cache[i].name = name
        /\ VersionGiven(xcode_version) => docs_cache[i].xcode_source = xcode_version.val}

\* the text of an entry: the cached text, or the file at its path when the
\* cached text is empty
EntryText(i) ==
    LET content == ContentGet(content_cache, docs_cache[i].key) IN
    IF content # <<>> THEN content
    ELSE LET file == FileAt(disk, docs_cache[i].path) IN
         IF file.some THEN file.val.text ELSE <<>>

\* C15: when get_document(N, T) returns document text, it is the text of an
\* entry whose stem is N and, when T is given, whose installation tag is T.
\* The code also accepts an entry whose key cut behind its first "::" is N:
\* get_document("b.app::Ab") returns the text of Ab.md of the installation
\* "Xcode.app::b.app" although no document has the stem "b.app::Ab".
C15_TextOfNamedEntry ==
    (Got /\ ~resp.out.raised /\ resp.out.text # NotFound(resp.name, resp.xcode_version))
    => \E i \in EntriesNamed(resp.name, resp.xcode_version) :
          resp.out.text = EntryText(i)

\* C16: when no entry has the stem N (and the tag T when T is given),
\* get_document returns the not-found string, which holds N and T, and does
\* not raise.  For the same reason as in C15 the code returns the text of
\* Ab.md for the name "b.app::Ab", which is the stem of no entry.
C16_NotFoundString ==
    (Got /\ EntriesNamed(resp.name, resp.xcode_version) = {})
    => /\ ~resp.out.raised
       /\ resp.out.text = NotFound(resp.name, resp.xcode_version)
       /\ Contains(resp.out.text, resp.name)
       /\ VersionGiven(resp.xcode_version)
             => Contains(resp.out.text, resp.xcode_version.val)

\* the first entry with the stem of the call (and its version, when given)
FirstNamed == CHOOSE i \in EntriesNamed(resp.name, resp.xcode_version) :
                 \A j \in EntriesNamed(resp.name, resp.xcode_version) : i <= j

\* the text that was indexed for an entry
CachedText(i) == ContentGet(content_cache, docs_cache[i].key)

QueryStep ==
    /\ pc = "ready"
    /\ pc' = "answered"
    /\ resp'.op \in {"search", "get_document", "list_documents",
                     "get_xcode_versions", "error"}

\* C18: search, get_document, list_documents and get_xcode_versions leave
\* the metadata dictionary and the content dictionary as they are, in every
\* order of calls.
C18_QueriesReadOnly ==
    [][QueryStep => (docs_cache' = docs_cache /\ content_cache' = content_cache)]_vars

\* get_document has read a rewritten file from disk, and both dictionaries
\* are what the build left
C18_Witness ==
    /\ Got
    /\ resp.out = ReturnedText(Rewritten)
    /\ docs_cache = first_build.docs
    /\ content_cache = first_build.content
    /\ \E i \in 1..Len(content_cache) : content_cache[i].content = <<>>

\* a dictionary as the set of its entries (dictionaries with the same
\* entries are equal in Python, whatever their order)
Entries(d) == {d[i] : i \in 1..Len(d)}

\* a later call of initialize() has returned
Rebuilt == pc = "answered" /\ resp.op = "initialize"

\* C19: when initialize() runs again on the manager and the corpus has not
\* changed, both dictionaries are equal to what the first build left: the
\* same keys with the same metadata (topics included) and the same text.
C19_RebuildIdempotent ==
    (Rebuilt /\ edit # "done") =>
       /\ Len(docs_cache) = Len(first_build.docs)
       /\ Len(content_cache) = Len(first_build.content)
       /\ Entries(docs_cache) = Entries(first_build.docs)
       /\ Entries(content_cache) = Entries(first_build.content)

\* the rebuild of an index of two documents, one of them with a topic
C19_Witness ==
    /\ Rebuilt
    /\ edit # "done"
    /\ Len(docs_cache) = 2
    /\ \E i \in 1..Len(docs_cache) : docs_cache[i].topics # <<>>

\* C20: every call of local_docs.search by a tool is made with a query that
\* passed the checks: not empty, not only whitespace, at most 500 characters.
\* search_docs checks the query; search_apple_online passes the query it is
\* given to local_docs.search without any check.
C20_QueryChecked ==
    (pc = "answered" /\ Searched) => CheckQuery(resp.query) = "ok"

(***************************************************************************)
(* C21                                                                     *)
(***************************************************************************)
\* the names tools.get_document lets through, said without CheckName
NameAllowed(name) ==
    /\ Len(name) >= 1
    /\ Len(name) <= 255
    /\ \A i \in 1..Len(name) : name[i] \notin {"/", "\\"}
    /\ \A i \in 1..(Len(name) - 1) : ~(name[i] = "." /\ name[i + 1] = ".")

\* the tool get_document has answered with an error string
Refused == pc = "answered" /\ resp.op = "error" /\ resp.tool = "get_document"

\* C21: the core get_document is invoked by the tool only with a name that is
\* non-empty, of at most 255 characters and without "..", "/" and "\"; for
\* every other name the tool answers with an error string and the core is not
\* invoked
C21_NameChecked ==
    /\ Got => NameAllowed(resp.name)
    /\ Refused => ~NameAllowed(resp.name)

\* a name with ".." was refused
C21_Witness == Refused /\ resp.name = <<".", ".">>

(***************************************************************************)
(* C22                                                                     *)
(***************************************************************************)
\* the loop of the search in resp appends a result for the i-th index entry
EntryMatches(i) ==
    DocMatches(resp.query, resp.case_sensitive, docs_cache[i].key, TextOf(i)) # <<>>

\* the index entries the results of the search in resp come from, in the
\* order the loop appends them
MatchedEntries == SelectSeq([i \in 1..Len(docs_cache) |-> i], EntryMatches)

\* C22: the document field of every search result is the stem stored in the
\* metadata of the index entry it came from, and xcode_version is that
\* entry's installation tag, also for tags and stems that contain "::"; so
\* no (installation tag, stem) pair is twice in a response.  The code puts
\* the key cut behind its first "::" in the document field: for the
\* installation "Xcode.app::b.app" that is "b.app::" followed by the stem.
C22_ResultNamesEntry ==
    Searched =>
        LET met == Encountered
            src == MatchedEntries
            out == resp.out.results
        IN /\ Len(met) = Len(src)
           /\ \A j \in 1..Len(met) :
                 /\ met[j].document = docs_cache[src[j]].name
                 /\ met[j].xcode_version = docs_cache[src[j]].xcode_source
           /\ \A a, b \in 1..Len(out) :
                 a # b => <<out[a].xcode_version, out[a].document>>
                          # <<out[b].xcode_version, out[b].document>>

(***************************************************************************)
(* C23                                                                     *)
(***************************************************************************)
\* the first (at most n) occurrences among the offsets O that do not overlap,
\* scanned left to right from offset from; step is the length of an
\* occurrence (1 for the empty query, whose occurrences are one apart)
RECURSIVE Scan(_, _, _, _)
Scan(O, from, step, n) ==
    LET left == {o \in O : o >= from} IN
    IF n = 0 \/ left = {} THEN <<>>
    ELSE LET o == CHOOSE x \in left : \A y \in left : x <= y
         IN <<o>> \o Scan(O, o + step, step, n - 1)

\* C23: with f = 1 if the query occurs in the stem (else 0) and c the number
\* of non-overlapping occurrences of the query in the text, scanned left to
\* right, the match list of a document is the filename match (context = stem)
\* first when f = 1, then the content matches of the earliest occurrences in
\* ascending offset, and total_matches = min(5, f + c); a document with
\* f + c = 0 has no result.  The code tests the key cut behind its first
\* "::" instead of the stem, and skips an empty text without scanning it.
C23_MatchList ==
    Searched =>
        LET met == Encountered
            src == MatchedEntries
            step == IF resp.query = <<>> THEN 1 ELSE Len(resp.query)
        IN \A i \in 1..Len(docs_cache) :
              LET stem == docs_cache[i].name
                  f == IF OccursIn(stem) THEN 1 ELSE 0
                  picks == Scan(OccurrencesIn(TextOf(i)), 0, step, 5)
                  n == Min(5, f + Len(picks))
                  at == {j \in 1..Len(src) : src[j] = i}
              IN IF n = 0 THEN at = {}
                 ELSE /\ Cardinality(at) = 1
                      /\ \A j \in at :
                            /\ met[j].total_matches = n
                            /\ Len(met[j].matches) = n
                            /\ f = 1 =>
                                  met[j].matches[1] =
                                     [type |-> "filename", context |-> stem]
                            /\ \A k \in 1..(n - f) :
                                  /\ met[j].matches[f + k].type = "content"
                                  /\ met[j].matches[f + k].position = picks[k]

(***************************************************************************)
(* C24                                                                     *)
(***************************************************************************)
\* blank inside a line
IsBlank(c) == c \in {" ", "\t"}

\* the line of t that starts at position p (1-based), without its newline
LineAt(t, p) ==
    LET ends == {e \in p..Len(t) : t[e] = "\n"} IN
    IF ends = {} THEN SubSeq(t, p, Len(t))
    ELSE SubSeq(t, p, (CHOOSE e \in ends : \A e2 \in ends : e <= e2) - 1)

\* the number of leading "#" of line, and of leading blanks
LeadingMarkers(line) ==
    Cardinality({k \in 1..Len(line) : \A j \in 1..k : line[j] = "#"})
LeadingBlanks(line) ==
    Cardinality({k \in 1..Len(line) : \A j \in 1..k : IsBlank(line[j])})

\* line is a heading line: 1 to 3 marker characters, whitespace, text
IsHeading(line) ==
    LET m == LeadingMarkers(line)
        rest == SubSeq(line, m + 1, Len(line))
        b == LeadingBlanks(rest)
    IN m \in 1..3 /\ b >= 1 /\ b < Len(rest)

\* the text of a heading line
HeadingText(line) ==
    LET m == LeadingMarkers(line)
        rest == SubSeq(line, m + 1, Len(line))
    IN SubSeq(rest, LeadingBlanks(rest) + 1, Len(rest))

\* the texts of the heading lines of the first 500 characters of text, in
\* the order of the lines, at most 5 of them
HeadingLines(text) ==
    LET t == SubSeq(text, 1, Min(500, Len(text)))
        StartsHeading(p) ==
            (p = 1 \/ t[p - 1] = "\n") /\ IsHeading(LineAt(t, p))
        at == SelectSeq([p \in 1..Len(t) |-> p], StartsHeading)
    IN [k \in 1..Min(5, Len(at)) |-> HeadingText(LineAt(t, at[k]))]

\* C24: every metadata entry has at most 5 topics, and they are the texts
\* of the first (up to 5) heading lines (1 to 3 marker characters,
\* whitespace, text) of the first 500 characters of the document, in order.
\* In the code the whitespace of the pattern (\s+) runs over line ends: a
\* line of "#" alone makes the next line of text a topic.
C24_TopicsAreHeadings ==
    \A i \in 1..Len(docs_cache) :
        /\ Len(docs_cache[i].topics) <= 5
        /\ docs_cache[i].topics = HeadingLines(TextOf(i))

(***************************************************************************)
(* C25                                                                     *)
(***************************************************************************)
\* the build has located the folders by discovery (no override)
Discovered == pc # "start" /\ ~IsSet(env) /\ ~config_error

\* C25: discovery returns every qualifying installation root at most once,
\* also for an installation whose name matches more than one pattern, so the
\* installation count of the summary line is the number of distinct
\* installations indexed.  "Xcode.app" matches "Xcode*.app" and "Xcode.app":
\* its folder is returned once for each pattern.
C25_RootsOnce ==
    Discovered =>
        /\ \A a, b \in 1..Len(doc_paths) : a # b => doc_paths[a] # doc_paths[b]
        /\ SummaryLine(docs_cache, doc_paths).installations
              = Cardinality({doc_paths[k] : k \in 1..Len(doc_paths)})

(***************************************************************************)
(* C26                                                                     *)
(***************************************************************************)
\* a call of search, get_document, list_documents or get_xcode_versions has
\* been answered
QueryAnswered ==
    /\ pc = "answered"
    /\ resp.op \in {"search", "get_document", "list_documents", "get_xcode_versions"}

\* C26: the build runs to its end before the server takes calls: no call of
\* search, get_document, list_documents or get_xcode_versions is answered
\* before initialize() has returned, nor from an index in which only a part
\* of the roots or of the files is loaded: the loop is past the last root,
\* and (while no file was rewritten) the index holds the key of every file
\* that can be read.
C26_NoPartialIndex ==
    QueryAnswered =>
        /\ first_build.some
        /\ ri > Len(doc_paths)
        /\ edit # "done" =>
              Keys(docs_cache) =
                 {CompositeKey(pair[1], pair[2]) : pair \in LoadedPairs}

\* a call answered from the index of two installations with a file each
C26_Witness ==
    /\ QueryAnswered
    /\ resp.op = "list_documents"
    /\ Len(doc_paths) >= 2
    /\ Cardinality({docs_cache[i].xcode_source : i \in 1..Len(docs_cache)}) = 2

(***************************************************************************)
(* C27                                                                     *)
(***************************************************************************)
\* C27: get_document returns the not-found string only when the metadata
\* dictionary has no entry whose stem is the name (and whose tag is the
\* version, when one is given).  The code returns it as well when the cached
\* text of the entry is empty and its file is no longer at the stored path.
C27_NotFoundOnlyWhenAbsent ==
    (Got /\ resp.out = ReturnedText(NotFound(resp.name, resp.xcode_version)))
    => EntriesNamed(resp.name, resp.xcode_version) = {}

(***************************************************************************)
(* C28                                                                     *)
(***************************************************************************)
\* C28: get_document returns a string and never raises, also when it falls
\* back to the disk and the file cannot be read or decoded.  In the code
\* the read_text of the fallback is outside any try.
C28_NeverRaises == Got => ~resp.out.raised


(***************************************************************************)
(* repos/swift_repos.py: SwiftRepos                                        *)
(***************************************************************************)
GithubCom == <<"g", "i", "t", "h", "u", "b", ".", "c", "o", "m", "/">>
RawHost == <<"r", "a", "w", ".", "g", "i", "t", "h", "u", "b", "u", "s", "e", "r", "c", "o", "n", "t", "e", "n", "t", ".", "c", "o", "m">>
RawCom == <<"r", "a", "w", ".", "g", "i", "t", "h", "u", "b", "u", "s", "e", "r", "c", "o", "n", "t", "e", "n", "t", ".", "c", "o", "m", "/">>
Blob == <<"b", "l", "o", "b", "/">>
Organizations == {<<"a", "p", "p", "l", "e">>, <<"s", "w", "i", "f", "t", "l", "a", "n", "g">>}
HttpsRaw == <<"h", "t", "t", "p", "s", ":", "/", "/", "r", "a", "w", ".", "g", "i", "t", "h", "u", "b", "u", "s", "e", "r", "c", "o", "n", "t", "e", "n", "t", ".", "c", "o", "m", "/">>

\* fetch_github_file, lines 106-107: the substrings one of which the URL
\* must hold
AllowedOrganization(url) ==
    \E host \in {GithubCom, RawCom} : \E org \in Organizations :
        Contains(url, host \o org \o <<"/">>)

NoMatch == [some |-> FALSE]

\* one try of host(apple|swiftlang)/([^/]+)/mid([^/]+)/(.+) at offset p of
\* url, for the pattern of line 208 (host github.com/, mid blob/) and that
\* of line 222 (host raw.githubusercontent.com/, no mid): the groups, or
\* NoMatch.  [^/]+ runs to the next "/", (.+) to the end of the line
PatternAt(url, p, host, mid) ==
    LET a == p + Len(host)
        orgs == {o \in Organizations : MatchAt(o \o <<"/">>, url, a, TRUE)}
    IN IF ~MatchAt(host, url, p, TRUE) \/ orgs = {} THEN NoMatch
       ELSE LET org == CHOOSE o \in orgs : TRUE
                r == a + Len(org) + 1
                re == FindFrom(<<"/">>, url, r, TRUE)
                b == re + 1 + Len(mid)
                be == FindFrom(<<"/">>, url, b, TRUE)
                e == EndOfLine(url, be + 1)
            IN IF \/ re = -1 \/ re = r
                  \/ ~MatchAt(mid, url, re + 1, TRUE)
                  \/ be = -1 \/ be = b
                  \/ e = be + 1
               THEN NoMatch
               ELSE [some |-> TRUE,
                     org |-> org,
                     repo |-> Slice(url, r, re),
                     branch |-> Slice(url, b, be),
                     path |-> Slice(url, be + 1, e)]

\* re.search(pattern, url): the groups of the leftmost match, or NoMatch
PatternSearchGroups(url, host, mid) ==
    LET at == {p \in 0..Len(url) : PatternAt(url, p, host, mid).some} IN
    IF at = {} THEN NoMatch
    ELSE PatternAt(url, CHOOSE p \in at : \A q \in at : p <= q, host, mid)

\* _parse_github_url: the web pattern first, then the raw pattern
parse_github_url(url) ==
    LET web == PatternSearchGroups(url, GithubCom, Blob) IN
    IF web.some THEN web ELSE PatternSearchGroups(url, RawCom, <<>>)

\* line 253: the raw URL built from the groups of a parsed URL, None when
\* the URL did not parse (line 255)
RawUrlOf(info) ==
    IF info.some
    THEN Some(HttpsRaw \o info.org \o <<"/">> \o info.repo \o <<"/">>
              \o info.branch \o <<"/">> \o info.path)
    ELSE None

\* _convert_to_raw_url: a URL that holds "raw.githubusercontent.com" is
\* returned as it is, any other one is rebuilt from its groups
convert_to_raw_url(url) ==
    IF Contains(url, RawHost) THEN Some(url)
    ELSE RawUrlOf(parse_github_url(url))

\* urllib.request.Request(url): the scheme is the text in front of the
\* first ":" when no "/" stands before it; without a scheme the constructor
\* raises ValueError ("unknown url type")
SchemeOf(url) ==
    LET colon == FindFrom(<<":">>, url, 0, TRUE)
        slash == FindFrom(<<"/">>, url, 0, TRUE)
    IN IF colon < 1 \/ (slash # -1 /\ slash < colon) THEN None
       ELSE Some(Lower(Slice(url, 0, colon)))

\* what the network does with a request: status 200 and a body that
\* decodes, another status, HTTPError, URLError, or a body that does not
\* decode
NetOutcomes == {"ok", "status", "http_error", "url_error", "undecodable"}

\* lines 176-177 of swift_repos.py
GithubCacheLimit == 50
GithubCacheKeep == 25

\* TrimGithubCache that keeps the entries stored first
TrimGithubCacheOldest(cache) ==
    IF Len(cache) > GithubCacheLimit THEN SubSeq(cache, 1, GithubCacheKeep)
    ELSE cache

\* if len(self.cache) > 50: self.cache = dict(list(self.cache.items())[-25:])
TrimGithubCache(cache) ==
    IF Len(cache) > GithubCacheLimit
    THEN SubSeq(cache, Len(cache) - GithubCacheKeep + 1, Len(cache))
    ELSE cache

\* a returned error dictionary
ErrorDict(error) == [error |-> error]

\* what a call leaves: the cache, the request it issued (None when it
\* issued none), whether it stored the response, and the value it returns
Outcome(cache, request, stored, out) ==
    [cache |-> cache, request |-> request, stored |-> stored, out |-> out]

\* lines 149-177: the request for raw_url is answered with net; a response
\* of status 200 that decodes is returned as result and stored under raw_url
FetchRequested(cache, net, raw_url, result) ==
    CASE net = "status" ->
            Outcome(cache, raw_url, FALSE, ErrorDict("HTTP status"))
      [] net = "http_error" ->
            Outcome(cache, raw_url, FALSE, ErrorDict("HTTP error"))
      [] net = "url_error" ->
            Outcome(cache, raw_url, FALSE, ErrorDict("Network error"))
      [] net = "undecodable" ->
            Outcome(cache, raw_url, FALSE, ErrorDict("Fetch failed"))
      [] net = "ok" ->
            Outcome(TrimGithubCache(DictSet(cache, [key |-> raw_url.val,
                                                    val |-> result])),
                    raw_url, TRUE, result)

\* lines 129-147: raw_url is the converted URL; without one the call fails,
\* a cached one is answered from the cache, one without a scheme makes
\* Request raise, any other one is requested
FetchConverted(cache, url, net, repo_info, raw_url) ==
    IF ~raw_url.some
    THEN Outcome(cache, None, FALSE, ErrorDict("Invalid GitHub URL format"))
    ELSE IF raw_url.val \in Keys(cache)
    THEN Outcome(cache, None, FALSE, Lookup(cache, raw_url.val).val)
    ELSE IF ~SchemeOf(raw_url.val).some
    THEN Outcome(cache, None, FALSE, ErrorDict("Fetch failed"))
    ELSE FetchRequested(cache, net, raw_url,
                        [url |-> url,
                         raw_url |-> raw_url.val,
                         repo |-> repo_info.org \o <<"/">> \o repo_info.repo,
                         path |-> repo_info.path])

\* lines 117-127: repo_info is the parsed URL; one that did not parse ends
\* the call, any other one is converted
FetchParsed(cache, url, net, repo_info) ==
    IF ~repo_info.some
    THEN Outcome(cache, None, FALSE, ErrorDict("Invalid GitHub URL format"))
    ELSE FetchConverted(cache, url, net, repo_info, convert_to_raw_url(url))

\* SwiftRepos.fetch_github_file(url) on the cache, when the network answers
\* a request with net
fetch_github_file(cache, url, net) ==
    IF ~AllowedOrganization(url)
    THEN Outcome(cache, None, FALSE, ErrorDict("Invalid URL"))
    ELSE FetchParsed(cache, url, net, parse_github_url(url))

(***************************************************************************)
(* docs/apple_docs.py: AppleDocsAPI                                        *)
(***************************************************************************)
\* str(n) for n >= 0
Digit(d) == <<"0", "1", "2", "3", "4", "5", "6", "7", "8", "9">>[d + 1]
RECURSIVE Digits(_)
Digits(n) == IF n < 10 THEN <<Digit(n)>> ELSE Append(Digits(n \div 10), Digit(n % 10))

\* cache_key = f"{url}:{int(time.time() // self.cache_ttl)}"
CacheKey(url, now) == url \o <<":">> \o Digits(now)

\* lines 86-87 of apple_docs.py
ApiCacheLimit == 100
ApiCacheKeep == 50

\* if len(self.cache) > 100: self.cache = dict(list(self.cache.items())[-50:])
TrimApiCache(cache) ==
    IF Len(cache) > ApiCacheLimit
    THEN SubSeq(cache, Len(cache) - ApiCacheKeep + 1, Len(cache))
    ELSE cache

\* lines 64-91: the call with its cache_key
FetchKeyed(cache, url, cache_key, net) ==
    IF cache_key \in Keys(cache)
    THEN Outcome(cache, None, FALSE, Some(Lookup(cache, cache_key).val))
    ELSE IF ~SchemeOf(url).some
    THEN Outcome(cache, None, FALSE, None)
    ELSE IF net = "ok"
    THEN Outcome(TrimApiCache(DictSet(cache, [key |-> cache_key,
                                              val |-> [json |-> url]])),
                 Some(url), TRUE, Some([json |-> url]))
    ELSE Outcome(cache, Some(url), FALSE, None)

\* AppleDocsAPI._fetch_json(url) on the cache in the hour now, when the
\* network answers the request with net: the data, or None
fetch_json(cache, url, now, net) ==
    FetchKeyed(cache, url, CacheKey(url, now), net)


(***************************************************************************)
(* The fetch modules as a state machine.                                   *)
(***************************************************************************)
\* the number of different URLs the behaviours store in the cache of
\* SwiftRepos, and in that of AppleDocsAPI
MaxGithubUrls == 52
MaxApiUrls == 102

\* the hours the clock shows, and the number of stored URLs at which it
\* moves on to the next hour: when the cache is full
Hours == {0, 1}
TurnsAt == {ApiCacheLimit}

\* the URLs given to fetch_github_file when its checks are exercised: web
\* and raw URLs of the two organizations, with and without a scheme; another
\* organization; a URL without a file; another host with the raw host and
\* an organization in its path; the raw host with another organization and
\* a web URL in its path
UrlForms ==
    { <<"h", "t", "t", "p", "s", ":", "/", "/", "g", "i", "t", "h", "u", "b", ".", "c", "o", "m", "/", "a", "p", "p", "l", "e", "/", "r", "/", "b", "l", "o", "b", "/", "m", "/", "f">>,
      <<"h", "t", "t", "p", "s", ":", "/", "/", "r", "a", "w", ".", "g", "i", "t", "h", "u", "b", "u", "s", "e", "r", "c", "o", "n", "t", "e", "n", "t", ".", "c", "o", "m", "/", "s", "w", "i", "f", "t", "l", "a", "n", "g", "/", "r", "/", "m", "/", "f">>,
      <<"g", "i", "t", "h", "u", "b", ".", "c", "o", "m", "/", "s", "w", "i", "f", "t", "l", "a", "n", "g", "/", "r", "/", "b", "l", "o", "b", "/", "m", "/", "f">>,
      <<"r", "a", "w", ".", "g", "i", "t", "h", "u", "b", "u", "s", "e", "r", "c", "o", "n", "t", "e", "n", "t", ".", "c", "o", "m", "/", "a", "p", "p", "l", "e", "/", "r", "/", "m", "/", "f">>,
      <<"h", "t", "t", "p", "s", ":", "/", "/", "g", "i", "t", "h", "u", "b", ".", "c", "o", "m", "/", "e", "v", "i", "l", "/", "r", "/", "b", "l", "o", "b", "/", "m", "/", "f">>,
      <<"h", "t", "t", "p", "s", ":", "/", "/", "g", "i", "t", "h", "u", "b", ".", "c", "o", "m", "/", "a", "p", "p", "l", "e", "/", "r">>,
      <<"h", "t", "t", "p", "s", ":", "/", "/", "e", "v", "i", "l", ".", "c", "o", "m", "/", "r", "a", "w", ".", "g", "i", "t", "h", "u", "b", "u", "s", "e", "r", "c", "o", "n", "t", "e", "n", "t", ".", "c", "o", "m", "/", "a", "p", "p", "l", "e", "/", "r", "/", "m", "/", "f">>,
      <<"h", "t", "t", "p", "s", ":", "/", "/", "r", "a", "w", ".", "g", "i", "t", "h", "u", "b", "u", "s", "e", "r", "c", "o", "n", "t", "e", "n", "t", ".", "c", "o", "m", "/", "e", "v", "i", "l", "/", "r", "/", "m", "/", "g", "i", "t", "h", "u", "b", ".", "c", "o", "m", "/", "a", "p", "p", "l", "e", "/", "r", "/", "b", "l", "o", "b", "/", "m", "/", "f">> }

\* the n-th file of a repository, as a web URL and as a raw URL, and the
\* n-th page of the Apple documentation
WebUrl(n) == <<"h", "t", "t", "p", "s", ":", "/", "/", "g", "i", "t", "h", "u", "b", ".", "c", "o", "m", "/", "a", "p", "p", "l", "e", "/", "r", "/", "b", "l", "o", "b", "/", "m", "/", "f">> \o Digits(n)
RawUrl(n) == HttpsRaw \o <<"a", "p", "p", "l", "e", "/", "r", "/", "m", "/", "f">> \o Digits(n)
ApiUrl(n) == <<"h", "t", "t", "p", "s", ":", "/", "/", "d", "e", "v", "e", "l", "o", "p", "e", "r", ".", "a", "p", "p", "l", "e", ".", "c", "o", "m", "/", "d">> \o Digits(n)

\* the files asked for when the cache is filled: the next new one, the one
\* stored last, the one stored first
Asked(max) ==
    {n \in {1, serial, serial + 1} : n >= 1 /\ n <= max}

\* the state of the fetch modules after construction
FetchInit ==
    /\ mode \in {"urls", "github", "apple"}
    /\ hour = 0
    /\ serial = 0
    /\ apple_docs_cache = <<>>
    /\ swift_repos_cache = <<>>
    /\ fetched = NoResponse
    /\ disk = <<>>
    /\ env = None
    /\ edit = "frozen"
    /\ doc_paths = <<>>
    /\ docs_cache = <<>>
    /\ content_cache = <<>>
    /\ pc = "start"
    /\ ri = 1
    /\ fi = 1
    /\ resp = NoResponse
    /\ config_error = FALSE
    /\ first_build = NoBuild

\* swift_repos.fetch_github_file(url)
FetchGithubFile ==
    /\ mode \in {"urls", "github"}
    /\ \E url \in IF mode = "urls" THEN UrlForms
                  ELSE {WebUrl(n) : n \in Asked(MaxGithubUrls)}
                       \cup {RawUrl(n) : n \in {serial} \ {0}},
          net \in NetOutcomes :
          \E got \in {fetch_github_file(swift_repos_cache, url, net)} :
          /\ swift_repos_cache' = got.cache
          /\ fetched' = [op |-> "fetch_github_file",
                         url |-> url,
                         net |-> IF got.request.some THEN net ELSE "none",
                         request |-> got.request,
                         stored |-> got.stored,
                         out |-> got.out]
          /\ serial' = IF got.stored /\ url = WebUrl(serial + 1)
                       THEN serial + 1 ELSE serial
    /\ UNCHANGED <<mode, hour, apple_docs_cache>>
    /\ UNCHANGED docs_vars

\* apple_docs._fetch_json(url), called at the hour now
FetchJson ==
    /\ mode = "apple"
    /\ \E n \in Asked(MaxApiUrls),
          now \in {h \in Hours : h = hour \/ (h = hour + 1 /\ serial \in TurnsAt)},
          net \in NetOutcomes :
          \E got \in {fetch_json(apple_docs_cache, ApiUrl(n), now, net)} :
          /\ apple_docs_cache' = got.cache
          /\ hour' = now
          /\ fetched' = [op |-> "fetch_json",
                         url |-> ApiUrl(n),
                         net |-> IF got.request.some THEN net ELSE "none",
                         request |-> got.request,
                         stored |-> got.stored,
                         out |-> got.out]
          /\ serial' = IF got.stored /\ n = serial + 1 THEN serial + 1 ELSE serial
    /\ UNCHANGED <<mode, swift_repos_cache>>
    /\ UNCHANGED docs_vars

FetchNext ==
    \/ FetchGithubFile
    \/ FetchJson

FetchSpec == FetchInit /\ [][FetchNext]_vars


(***************************************************************************)
(* C29                                                                     *)
(***************************************************************************)
\* s starts with p
StartsWith(s, p) == MatchAt(p, s, 0, TRUE)

\* url is a URL of raw.githubusercontent.com whose organization is apple or
\* swiftlang
IsAllowedRawUrl(url) ==
    \E scheme \in {<<"h", "t", "t", "p", "s", ":", "/", "/">>, <<"h", "t", "t", "p", ":", "/", "/">>} : \E org \in Organizations :
        StartsWith(url, scheme \o RawCom \o org \o <<"/">>)

\* url names a file of apple or swiftlang on github.com or on
\* raw.githubusercontent.com, with or without a scheme
NamesAllowedFile(url) ==
    \E scheme \in {<<>>, <<"h", "t", "t", "p", "s", ":", "/", "/">>, <<"h", "t", "t", "p", ":", "/", "/">>} :
    \E host \in {GithubCom, RawCom} : \E org \in Organizations :
        StartsWith(url, scheme \o host \o org \o <<"/">>)

\* fetch_github_file has returned
FetchedFile == fetched.op = "fetch_github_file"

\* C29: fetch_github_file issues a request only to a URL of
\* raw.githubusercontent.com whose organization is apple or swiftlang; for
\* every other input it returns an error dictionary and issues no request.
\* The code looks for the host and the organization anywhere in the URL
\* and requests a URL that holds "raw.githubusercontent.com" as it is.
C29_RequestsOnlyAllowed ==
    FetchedFile =>
        /\ fetched.request.some => IsAllowedRawUrl(fetched.request.val)
        /\ ~NamesAllowedFile(fetched.url) =>
              /\ ~fetched.request.some
              /\ "error" \in DOMAIN fetched.out

(***************************************************************************)
(* C30                                                                     *)
(***************************************************************************)
\* a step from cache to cache2 stores nothing, or it stores the successful
\* response of the call under a key that was not there, behind the entries
\* that were there, and keeps all of them (up to limit entries) or the keep
\* last ones
StoresLast(cache, cache2, limit, keep) ==
    cache2 # cache =>
        /\ fetched'.stored
        /\ fetched'.net = "ok"
        /\ "error" \notin DOMAIN fetched'.out
        /\ Len(cache2) >= 1
        /\ LET new == cache2[Len(cache2)]
               all == Append(cache, new)
           IN /\ new.key \notin Keys(cache)
              /\ cache2 = IF Len(all) > limit
                          THEN SubSeq(all, Len(all) - keep + 1, Len(all))
                          ELSE all

\* C30: after every call the cache of AppleDocsAPI holds at most 100
\* entries and that of SwiftRepos at most 50; a call changes a cache only by
\* storing a successful response, and when it trims, the entries inserted
\* last (50, respectively 25), the new one among them, are the ones kept.
C30_CachesBounded ==
    /\ [](Len(apple_docs_cache) <= 100 /\ Len(swift_repos_cache) <= 50)
    /\ [][/\ StoresLast(apple_docs_cache, apple_docs_cache', 100, 50)
          /\ StoresLast(swift_repos_cache, swift_repos_cache', 50, 25)]_vars

\* _fetch_json has stored a response in the full cache in a new hour: the
\* cache was trimmed to its last 50 entries
C30_Witness ==
    /\ fetched.op = "fetch_json"
    /\ fetched.stored
    /\ hour = 1
    /\ Len(apple_docs_cache) = 50
    /\ apple_docs_cache[50].key = CacheKey(fetched.url, 1)

====
